---- MODULE Spec2Model ----
(***************************************************************************)
(* Protocol runtime of the OCPP 1.6 charge point (ocpp::v16::ChargePoint,  *)
(* lib/ocpp/v16/charge_point.cpp): registration lifecycle, outbound        *)
(* gating, transactions, availability changes, reset, local list and       *)
(* authorization.  One handler of the source is one action.  The           *)
(* collaborators whose code is not part of the two source files            *)
(* (MessageQueue, TransactionHandler, ChargePointStates, DatabaseHandler,   *)
(* Websocket) are modelled from their documented contract.                 *)
(***************************************************************************)
EXTENDS Integers, Sequences, FiniteSets, TLC

(* ------------------------------ bounds -------------------------------- *)
\* physical connectors 1..NumberOfConnectors; connector 0 is the charge point
NumberOfConnectors == 2
\* charging sessions the operator starts in one run
MaxSessions == 2
\* calls that may wait in the message queue before a handler pushes more
MaxQueue == 2

Connectors == 1..NumberOfConnectors
AllConnectors == 0..NumberOfConnectors
Sessions == 1..MaxSessions
\* transactionIds the central system hands out in StartTransactionResponse
ServerTxIds == {7, 42}
\* Transaction::transaction_id before the server assigned one
Unassigned == -1
\* boost::optional<int32_t> without a value / nullptr transaction
None == 0

(* ------------------------------ state --------------------------------- *)
VARIABLES
    websocket,                  \* "null" | "connecting" | "connected" | "closed"
    initialized,                \* ChargePoint::initialized
    registration_status,        \* ChargePoint::registration_status
    connection_state,           \* ChargePoint::connection_state
    stopped,                    \* ChargePoint::stopped
    retry_time_reached,         \* now >= boot_time + HeartbeatInterval
    boot_notification_timer,    \* "stopped" | "now" | "after_interval"
    heartbeat_timer,            \* TRUE when the heartbeat timer is running
    queue,                      \* MessageQueue: pending Calls, FIFO
    in_flight,                  \* the head of queue was sent and awaits its response
    status,                     \* ChargePointStates: connector -> ChargePointStatus
    status_notification_timers, \* connector -> status to notify, or "stopped"
    status_notification_clock,  \* due, age and gap of the timers' notifications, in ticks
    connector_availability,     \* DatabaseHandler: connector -> AvailabilityType
    change_availability_queue,  \* connector -> scheduled AvailabilityType or "none"
    active_transactions,        \* TransactionHandler: connector -> session or None
    stopped_transactions,       \* TransactionHandler: sessions awaiting StopTransactionResponse
    connector_transaction,      \* Connector::transaction: connector -> session or None
    transactions,               \* session -> Transaction object
    next_session,               \* next session the operator starts
    db_transactions,            \* DatabaseHandler: sessions stored without a stop
    authorization_cache,        \* DatabaseHandler: idTag -> cache entry
    crashed,                    \* a handler dereferenced a null transaction
    configuration,              \* ChargePointConfiguration: key -> value
    local_list_version,         \* DatabaseHandler: version of the local authorization list
    local_authorization_list,   \* DatabaseHandler: idTag -> local list entry
    reset_pc,                   \* where the reset_thread of handleResetRequest stands
    stop_transaction_mutex,     \* "free" or the thread that owns it
    charging_profiles,          \* SmartChargingHandler: the installed charging profiles
    security,                   \* switch_security_profile_callback and the websocket's profile
    clock_aligned_meter_values_timer, \* TRUE while the timer is armed for a time point
    clock_aligned_meter_values_time_point, \* the time point of that timer, in seconds
    now,                        \* date::utc_clock: seconds since 1970, leap seconds included
    history,                    \* what was handed to the queue and what the central system answered
    out                         \* what the last handler emitted, in order

lifecycle_vars == <<websocket, initialized, registration_status, connection_state, stopped,
                    retry_time_reached, boot_notification_timer, heartbeat_timer>>
queue_vars == <<queue, in_flight>>
status_vars == <<status, status_notification_timers, status_notification_clock>>
availability_vars == <<connector_availability, change_availability_queue>>
transaction_vars == <<active_transactions, stopped_transactions, connector_transaction,
                      transactions, next_session, db_transactions>>
list_vars == <<configuration, local_list_version, local_authorization_list>>
reset_vars == <<reset_pc, stop_transaction_mutex>>
profile_vars == <<charging_profiles>>
security_vars == <<security>>
clock_vars == <<clock_aligned_meter_values_timer, clock_aligned_meter_values_time_point, now>>
extra_vars == <<profile_vars, security_vars, clock_vars>>
aux_vars == <<list_vars, reset_vars, extra_vars>>

(* --------------------------- messages --------------------------------- *)
\* An outbound Call (or an emitted response / callback), reduced to the fields
\* the handlers set and read.
Call(action, connector, session, transactionId, st) ==
    [action |-> action, connector |-> connector, session |-> session,
     transactionId |-> transactionId, status |-> st]

Emit(kind, action, connector, st) ==
    [kind |-> kind, msg |-> Call(action, connector, None, None, st)]

Pushed(call) == [kind |-> "push", msg |-> call]

\* the Calls handed to message_queue->push / push_async by the last handler
PushedCalls == SelectSeq(out, LAMBDA e : e.kind = "push")

RECURSIVE SeqOfSet(_)
SeqOfSet(S) ==
    IF S = {} THEN <<>>
    ELSE LET m == CHOOSE x \in S : \A y \in S : x <= y
         IN <<m>> \o SeqOfSet(S \ {m})

Range(s) == {s[i] : i \in 1..Len(s)}

(* ------------------------ outbound gating ----------------------------- *)
GateOpenActions == {"BootNotification", "StopTransaction"}

\* ChargePoint::allowed_to_send_message, on the gate state (init, reg, retry)
allowed_to_send_message(init, reg, retry, call) ==
    IF ~init
    THEN call.action \in GateOpenActions
    ELSE IF reg = "Rejected"
         THEN retry
         ELSE IF reg = "Pending"
              THEN call.action \in GateOpenActions
              ELSE TRUE

\* ChargePoint::send(Call): push when allowed, drop otherwise
SendOn(init, reg, retry, call) ==
    IF allowed_to_send_message(init, reg, retry, call) THEN <<Pushed(call)>> ELSE <<>>

send(call) == SendOn(initialized, registration_status, retry_time_reached, call)

\* ChargePoint::send_async(Call): push_async, no gate
send_async(call) == <<Pushed(call)>>

\* Calls whose response a handler or a waiting future consumes stay in the
\* queue until that response; the queue sends every other Call on and forgets it.
AwaitedActions == {"BootNotification", "StartTransaction", "StopTransaction"}

Awaited(o) ==
    LET p == SelectSeq(o, LAMBDA e : e.kind = "push" /\ e.msg.action \in AwaitedActions)
    IN [i \in 1..Len(p) |-> p[i].msg]

\* the sessions whose StartTransaction is pushed in o
StartsIn(o) ==
    {o[i].msg.session : i \in {j \in 1..Len(o) : o[j].kind = "push"
                                                /\ o[j].msg.action = "StartTransaction"}}

\* the handler emitted o: its pushes reach the queue q
EmitOn(q, o) ==
    /\ out' = o
    /\ queue' = q \o Awaited(o)
    /\ history' = [history EXCEPT !.start_enqueued = @ \cup StartsIn(o)]

Emits(o) == EmitOn(queue, o)

QueueHasRoom == Len(queue) < MaxQueue

(* ------------------------- requests ----------------------------------- *)
BootNotificationRequest == Call("BootNotification", 0, None, None, "-")
HeartbeatRequest == Call("Heartbeat", 0, None, None, "-")
StatusNotificationRequest(connector, st) == Call("StatusNotification", connector, None, None, st)
FirmwareStatusNotificationRequest == Call("FirmwareStatusNotification", 0, None, None, "-")
DiagnosticsStatusNotificationRequest == Call("DiagnosticsStatusNotification", 0, None, None, "-")
StartTransactionRequest(s, connector) == Call("StartTransaction", connector, s, None, "-")
StopTransactionRequest(s, connector, txid, reason) ==
    Call("StopTransaction", connector, s, txid, reason)
MeterValuesRequest(connector, txid) == Call("MeterValues", connector, None, txid, "-")

\* ChargePoint::status_notification(connector, errorCode, status)
status_notification(connector, st) == send(StatusNotificationRequest(connector, st))

(* ------------------- connector state machine -------------------------- *)
\* ChargePointStates::submit_event: the state after an event
NextStatus(st, event) ==
    CASE event = "BecomeAvailable" -> "Available"
      [] event = "ChangeAvailabilityToUnavailable" -> "Unavailable"
      [] event = "TransactionStoppedAndUserActionRequired" ->
            IF st = "Unavailable" THEN st ELSE "Finishing"
      [] OTHER -> st

\* a timeout that lets the timer fire at once
status_notification_timeout_immediate(minimum) == 0

\* the timeout the status callback arms a connector's timer with (lines 66-68)
status_notification_timeout(minimum) == minimum

\* a callback that leaves a timer that is already armed as it is
ArmStatusNotificationTimers_unless_pending(armed) ==
    status_notification_clock' =
        [status_notification_clock EXCEPT !.due = [c \in AllConnectors |->
            IF c \in armed /\ status_notification_timers[c] = "stopped"
            THEN status_notification_timeout(configuration.MinimumStatusDuration)
            ELSE @[c]]]

\* the timers of the connectors in armed are stopped and armed again
ArmStatusNotificationTimers(armed) ==
    status_notification_clock' =
        [status_notification_clock EXCEPT !.due = [c \in AllConnectors |->
            IF c \in armed
            THEN status_notification_timeout(configuration.MinimumStatusDuration)
            ELSE @[c]]]

\* events: connector -> event or "none"; every transition re-arms the
\* connector's status notification timer with the new status
SubmitEvents(events) ==
    /\ ArmStatusNotificationTimers({c \in AllConnectors :
            events[c] /= "none" /\ NextStatus(status[c], events[c]) /= status[c]})
    /\ status' = [c \in AllConnectors |->
                    IF events[c] = "none" THEN status[c] ELSE NextStatus(status[c], events[c])]
    /\ status_notification_timers' = [c \in AllConnectors |->
                    IF events[c] /= "none" /\ NextStatus(status[c], events[c]) /= status[c]
                    THEN NextStatus(status[c], events[c])
                    ELSE status_notification_timers[c]]

NoEvents == [c \in AllConnectors |-> "none"]

\* ChargePointStates::run(connector_availability): every connector enters its
\* initial state and reports it
RunStates(availability) ==
    LET initial == [c \in AllConnectors |->
                      IF c /= 0 /\ availability[c] = "Inoperative"
                      THEN "Unavailable" ELSE "Available"]
    IN /\ status' = initial
       /\ status_notification_timers' = initial
       /\ ArmStatusNotificationTimers(AllConnectors)

(* ---------------------- start, stop, restart -------------------------- *)
Running == websocket \notin {"null", "closed"} /\ ~stopped /\ ~crashed

\* ChargePoint::boot_notification on the gate state (init, reg, retry)
boot_notification(init, reg, retry) == SendOn(init, reg, retry, BootNotificationRequest)

\* ChargePoint::stop_pending_transactions: one StopTransaction(PowerLoss) per
\* transaction the store holds without a stop
stop_pending_transactions(init, reg, retry) ==
    LET pending == SeqOfSet({e.session : e \in db_transactions})
        entry(s) == CHOOSE e \in db_transactions : e.session = s
        stop(s) == SendOn(init, reg, retry,
                     StopTransactionRequest(s, entry(s).connector, entry(s).transaction_id,
                                            "PowerLoss"))
        RECURSIVE all(_)
        all(i) == IF i > Len(pending) THEN <<>> ELSE stop(pending[i]) \o all(i + 1)
    IN all(1)

\* ChargePoint::start on the queue q and the gate state (init, reg, retry),
\* followed by the events after
StartOnThen(q, init, reg, retry, after) ==
    /\ db_transactions = {} \/ stop_transaction_mutex = "free"
    /\ websocket' = "connecting"
    /\ EmitOn(q, boot_notification(init, reg, retry)
                 \o stop_pending_transactions(init, reg, retry) \o after)
    /\ db_transactions' = {}
    /\ stopped' = FALSE

\* ChargePoint::start on the queue q and the gate state (init, reg, retry)
StartOn(q, init, reg, retry) == StartOnThen(q, init, reg, retry, <<>>)

Start ==
    /\ websocket = "null"
    /\ ~crashed
    /\ StartOn(queue, initialized, registration_status, retry_time_reached)
    /\ UNCHANGED <<initialized, registration_status, connection_state, retry_time_reached,
                   boot_notification_timer, heartbeat_timer, in_flight, status_vars,
                   availability_vars, active_transactions, stopped_transactions,
                   connector_transaction, transactions, next_session,
                   authorization_cache, crashed, aux_vars>>

\* ChargePoint::stop_all_transactions(reason): the stop callback of every
\* connector with an active transaction
stop_all_transactions(reason) ==
    LET cs == SeqOfSet({c \in Connectors : active_transactions[c] /= None})
    IN [i \in 1..Len(cs) |-> Emit("callback", "stop_transaction_callback", cs[i], reason)]

\* a stop that leaves the boot notification timer running
stop_leaving_boot_notification_timer(after) ==
    /\ initialized' = FALSE
    /\ UNCHANGED boot_notification_timer
    /\ heartbeat_timer' = FALSE
    /\ clock_aligned_meter_values_timer' = FALSE
    /\ UNCHANGED <<clock_aligned_meter_values_time_point, now>>
    /\ out' = stop_all_transactions("Other") \o after
    /\ websocket' = "closed"
    /\ in_flight' = FALSE
    /\ stopped' = TRUE
    /\ UNCHANGED <<registration_status, connection_state, retry_time_reached, queue,
                   status_vars, availability_vars, transaction_vars, authorization_cache,
                   crashed, list_vars, profile_vars, security_vars, history>>

\* ChargePoint::stop when the charge point is not stopped, followed by the
\* events after
stop(after) ==
    /\ initialized' = FALSE
    /\ boot_notification_timer' = "stopped"
    /\ heartbeat_timer' = FALSE
    /\ clock_aligned_meter_values_timer' = FALSE
    /\ UNCHANGED <<clock_aligned_meter_values_time_point, now>>
    /\ out' = stop_all_transactions("Other") \o after
    /\ websocket' = "closed"
    /\ in_flight' = FALSE
    /\ stopped' = TRUE
    /\ UNCHANGED <<registration_status, connection_state, retry_time_reached, queue,
                   status_vars, availability_vars, transaction_vars, authorization_cache,
                   crashed, list_vars, profile_vars, security_vars, history>>

\* the operator calls ChargePoint::stop
Stop ==
    /\ websocket /= "null"
    /\ ~crashed
    /\ ~stopped
    /\ stop(<<>>)
    /\ UNCHANGED reset_vars

\* ChargePoint::restart
Restart ==
    /\ stopped
    /\ ~crashed
    /\ initialized' = TRUE
    /\ in_flight' = FALSE
    /\ StartOn(<<>>, TRUE, registration_status, retry_time_reached)
    /\ UNCHANGED <<registration_status, connection_state, retry_time_reached,
                   boot_notification_timer, heartbeat_timer, status_vars, availability_vars,
                   active_transactions, stopped_transactions, connector_transaction,
                   transactions, next_session, authorization_cache, crashed, aux_vars>>

(* ------------------------- transport ---------------------------------- *)
\* no switch of the security profile is pending; the websocket was initialised
\* with profile 0 and reconnects by itself
NoSwitch == [callback |-> "null", new_security_profile |-> 0, websocket_profile |-> 0,
             try_once |-> FALSE]

\* init_websocket(profile) followed by websocket->connect(profile, try_once)
Connect(security_profile, try_once, cause) ==
    [kind |-> "call", msg |-> [action |-> "connect", security_profile |-> security_profile,
                               try_once |-> try_once, cause |-> cause]]

\* switchSecurityProfile, line 1055: the websocket tries to connect once
switch_try_once(cause) == TRUE

\* the disconnected callback runs switch_security_profile_callback (lines
\* 102-104): ChargePoint::switchSecurityProfile with the profile of the
\* ChangeConfiguration, or, from the callback switchSecurityProfile set, with
\* the profile of the configuration
RunSwitchSecurityProfileCallback ==
    LET new_security_profile ==
            IF security.callback = "switch" THEN security.new_security_profile
            ELSE configuration.SecurityProfile
    IN IF security.callback = "null"
       THEN out' = <<>> /\ UNCHANGED security
       ELSE /\ security' = [security EXCEPT !.callback = "fallback",
                                            !.websocket_profile = new_security_profile,
                                            !.try_once = switch_try_once(security.callback)]
            /\ out' = <<Connect(new_security_profile, switch_try_once(security.callback),
                                security.callback)>>

\* connected_callback that notifies the physical connectors only
connected_callback_without_connector_0(state) ==
    IF state = "Booted"
    THEN [i \in 1..NumberOfConnectors |-> Pushed(StatusNotificationRequest(i, status[i]))]
    ELSE <<>>

\* ChargePoint::connected_callback
connected_callback(state) ==
    IF state = "Booted"
    THEN LET RECURSIVE all(_)
             all(c) == IF c > NumberOfConnectors THEN <<>>
                       ELSE status_notification(c, status[c]) \o all(c + 1)
         IN all(0)
    ELSE <<>>

\* the websocket's connected callback (init_websocket): resume the queue, then
\* connected_callback
WebsocketConnected ==
    /\ websocket = "connecting"
    /\ ~crashed
    /\ websocket' = "connected"
    /\ connection_state' = IF connection_state = "Disconnected" THEN "Connected"
                           ELSE connection_state
    /\ Emits(connected_callback(connection_state))
    /\ configuration' = [configuration EXCEPT !.SecurityProfile = security.websocket_profile]
    /\ security' = [security EXCEPT !.callback = "null"]
    /\ UNCHANGED <<initialized, registration_status, stopped, retry_time_reached,
                   boot_notification_timer, heartbeat_timer, in_flight, status_vars,
                   availability_vars, transaction_vars, authorization_cache, crashed,
                   local_list_version, local_authorization_list,
                   reset_vars, profile_vars, clock_vars>>

\* the websocket's disconnected callback (init_websocket): pause the queue.  A
\* Call that was sent and is not transaction related is not retried.
WebsocketDisconnected ==
    /\ websocket = "connected"
    /\ ~crashed
    /\ websocket' = "connecting"
    /\ in_flight' = FALSE
    /\ queue' = IF in_flight /\ Head(queue).action = "BootNotification"
                THEN Tail(queue) ELSE queue
    /\ RunSwitchSecurityProfileCallback
    /\ UNCHANGED <<initialized, registration_status, connection_state, stopped,
                   retry_time_reached, boot_notification_timer, heartbeat_timer,
                   status_vars, availability_vars, transaction_vars, authorization_cache,
                   crashed, list_vars, reset_vars, profile_vars, clock_vars, history>>

\* the one connect attempt of a websocket that tries once has failed: the
\* websocket's disconnected callback
ConnectAttemptFailed ==
    /\ websocket = "connecting"
    /\ ~crashed
    /\ security.try_once
    /\ security.callback /= "null"
    /\ RunSwitchSecurityProfileCallback
    /\ UNCHANGED <<lifecycle_vars, queue_vars, status_vars, availability_vars,
                   transaction_vars, authorization_cache, crashed, list_vars, reset_vars,
                   profile_vars, clock_vars, history>>

\* MessageQueue: the oldest pending Call goes out when none awaits its response
QueueTransmit ==
    /\ websocket = "connected"
    /\ ~crashed
    /\ ~in_flight
    /\ queue /= <<>>
    /\ in_flight' = TRUE
    /\ out' = <<>>
    /\ UNCHANGED <<lifecycle_vars, queue, status_vars, availability_vars, transaction_vars,
                   authorization_cache, crashed, aux_vars, history>>

(* --------------------------- timers ----------------------------------- *)
\* boot_notification_timer fires: ChargePoint::boot_notification
BootNotificationTimer ==
    /\ ~crashed
    /\ QueueHasRoom
    /\ \/ boot_notification_timer = "now"
       \/ boot_notification_timer = "after_interval" /\ retry_time_reached
    /\ boot_notification_timer' = "stopped"
    /\ Emits(boot_notification(initialized, registration_status, retry_time_reached))
    /\ UNCHANGED <<websocket, initialized, registration_status, connection_state, stopped,
                   retry_time_reached, heartbeat_timer, in_flight, status_vars,
                   availability_vars, transaction_vars, authorization_cache, crashed, aux_vars>>

\* heartbeat_timer fires: ChargePoint::heartbeat
HeartbeatTimer ==
    /\ ~crashed
    /\ heartbeat_timer
    /\ Emits(send(HeartbeatRequest))
    /\ UNCHANGED <<lifecycle_vars, in_flight, status_vars, availability_vars,
                   transaction_vars, authorization_cache, crashed, aux_vars>>

\* status_notification_timers[connector] fires (constructor, lines 62-69), no
\* earlier than its timeout; gap is the time since the notification before,
\* NotNotified when there was none
StatusNotificationTimer(connector) ==
    /\ ~crashed
    /\ status_notification_timers[connector] /= "stopped"
    /\ status_notification_clock.due[connector] = 0
    /\ Emits(status_notification(connector, status_notification_timers[connector]))
    /\ status_notification_timers' =
           [status_notification_timers EXCEPT ![connector] = "stopped"]
    /\ status_notification_clock' =
           IF status_notification(connector, status_notification_timers[connector]) = <<>>
           THEN status_notification_clock
           ELSE [status_notification_clock EXCEPT
                    !.gap[connector] = status_notification_clock.age[connector],
                    !.age[connector] = 0]
    /\ UNCHANGED <<lifecycle_vars, in_flight, status, availability_vars, transaction_vars,
                   authorization_cache, crashed, aux_vars>>

\* the clock reaches boot_time + HeartbeatInterval
RetryTimeReached ==
    /\ ~crashed
    /\ ~retry_time_reached
    /\ retry_time_reached' = TRUE
    /\ out' = <<>>
    /\ UNCHANGED <<websocket, initialized, registration_status, connection_state, stopped,
                   boot_notification_timer, heartbeat_timer, queue_vars, status_vars,
                   availability_vars, transaction_vars, authorization_cache, crashed, aux_vars, history>>

(* ------------------------ transactions -------------------------------- *)
\* the idTag the sessions of this model are started with
SessionIdTag == "TAG01"

NoTransaction == [connector |-> 0, transaction_id |-> Unassigned, finished |-> FALSE]

\* TransactionHandler::get_transaction(connector)
get_transaction(connector) == active_transactions[connector]

\* TransactionHandler::transaction_active(connector)
transaction_active(connector) == get_transaction(connector) /= None

\* TransactionHandler::add_transaction: registers s as the active transaction
\* of the connector; fails if one is already active
add_transaction(s, connector) ==
    IF transaction_active(connector)
    THEN active_transactions
    ELSE [active_transactions EXCEPT ![connector] = s]

\* TransactionHandler::get_transaction(start_transaction_message_id): the
\* active or stopped transaction whose StartTransaction has that id, or None
get_transaction_by_message(s) ==
    IF s \in {active_transactions[c] : c \in Connectors} \cup stopped_transactions
    THEN s ELSE None

\* ChargePoint::start_transaction
start_transaction(s, connector) == send(StartTransactionRequest(s, connector))

\* ChargePoint::on_transaction_started
OnTransactionStarted(connector) ==
    /\ Running
    /\ QueueHasRoom
    /\ next_session <= MaxSessions
    /\ LET s == next_session
       IN /\ transactions' = [transactions EXCEPT ![s] =
                                [connector |-> connector, transaction_id |-> Unassigned,
                                 finished |-> FALSE]]
          /\ db_transactions' = db_transactions \cup
                 {[session |-> s, transaction_id |-> Unassigned, connector |-> connector]}
          /\ active_transactions' = add_transaction(s, connector)
          /\ connector_transaction' = [connector_transaction EXCEPT ![connector] = s]
          /\ next_session' = s + 1
          /\ Emits(start_transaction(s, connector))
    /\ UNCHANGED <<lifecycle_vars, in_flight, status_vars, availability_vars,
                   stopped_transactions, authorization_cache, crashed, aux_vars>>

\* ChargePoint::stop_transaction: the StopTransaction of the connector's
\* transaction, with the transactionId the transaction holds now
stop_transaction(connector, reason) ==
    LET s == get_transaction(connector)
    IN send(StopTransactionRequest(s, connector, transactions[s].transaction_id, reason))

(* ------------------------ charging profiles --------------------------- *)
\* charging profiles the central system may have installed
MaxProfiles == 3
ProfileIds == 1..MaxProfiles
ChargingProfilePurposes == <<"ChargePointMaxProfile", "TxDefaultProfile", "TxProfile">>

\* the profile with id i: one profile per id
ChargingProfile(i) ==
    [chargingProfileId |-> i, connectorId |-> i % (NumberOfConnectors + 1),
     stackLevel |-> i % 2, purpose |-> ChargingProfilePurposes[(i % 3) + 1]]

\* a filter of ClearChargingProfile; every field is optional: {} when absent
ProfileFilter(id, connectorId, stackLevel, purpose) ==
    [id |-> id, connectorId |-> connectorId, stackLevel |-> stackLevel, purpose |-> purpose]

Optional(S) == {{}} \cup {{x} : x \in S}

\* SmartChargingHandler::clear_all_profiles
clear_all_profiles == {}

\* SmartChargingHandler::clear_all_profiles_with_filter: the profiles that
\* remain, and whether a profile was erased
clear_all_profiles_with_filter(profiles, filter, check_id_only) ==
    LET given(field, value) == field = {} \/ value \in field
        matches(p) ==
            /\ given(filter.id, p.chargingProfileId)
            /\ check_id_only \/ (/\ given(filter.connectorId, p.connectorId)
                                 /\ given(filter.stackLevel, p.stackLevel)
                                 /\ given(filter.purpose, p.purpose))
        remaining == {p \in profiles : ~matches(p)}
    IN [profiles |-> remaining, erased |-> remaining /= profiles]

\* ChargePoint::on_transaction_stopped
OnTransactionStopped(connector) ==
    /\ websocket /= "null"
    /\ ~crashed
    /\ QueueHasRoom
    /\ transaction_active(connector)
    /\ stop_transaction_mutex = "free"
    /\ LET s == get_transaction(connector)
       IN /\ SubmitEvents([NoEvents EXCEPT
                              ![connector] = "TransactionStoppedAndUserActionRequired"])
          /\ Emits(stop_transaction(connector, "Local"))
          /\ transactions' = [transactions EXCEPT ![s].finished = TRUE]
          /\ stopped_transactions' = stopped_transactions \cup {s}
          /\ db_transactions' = {e \in db_transactions : e.session /= s}
          /\ active_transactions' = [active_transactions EXCEPT ![connector] = None]
    /\ charging_profiles' =
          clear_all_profiles_with_filter(charging_profiles,
              ProfileFilter({}, {connector}, {}, {"TxProfile"}), FALSE).profiles
    /\ UNCHANGED <<lifecycle_vars, in_flight, availability_vars, connector_transaction,
                   next_session, authorization_cache, crashed, list_vars, reset_vars,
                   security_vars, clock_vars>>

\* the id of the connector's transaction, also before the central system
\* assigned one
meter_value_transaction_id_unchecked(connector) ==
    LET s == IF connector > 0 THEN get_transaction(connector) ELSE None
    IN IF s /= None THEN transactions[s].transaction_id ELSE None

\* send_meter_value, lines 563-569: the transactionId of the request, None
\* when it carries none
meter_value_transaction_id(connector) ==
    LET s == IF connector > 0 THEN get_transaction(connector) ELSE None
    IN IF s /= None /\ transactions[s].transaction_id /= Unassigned
       THEN transactions[s].transaction_id ELSE None

\* ChargePoint::send_meter_value for a meter value with that many sampled
\* values
send_meter_value(connector, sampledValue) ==
    IF sampledValue = 0 THEN <<>>
    ELSE send(MeterValuesRequest(connector, meter_value_transaction_id(connector)))

\* the periodic sample timer of the connector's transaction fires
\* (on_transaction_started, lines 2215-2220); get_latest_meter_value returns
\* that many sampled values
MeterValuesSample(connector, sampledValue) ==
    /\ ~crashed
    /\ transaction_active(connector)
    /\ Emits(send_meter_value(connector, sampledValue))
    /\ UNCHANGED <<lifecycle_vars, in_flight, status_vars, availability_vars,
                   transaction_vars, authorization_cache, crashed, aux_vars>>

\* the sample timer with a power meter that reports a measurand
MeterValuesSampleTimer(connector) == MeterValuesSample(connector, 1)

\* ChargePoint::firmware_status_notification / diagnostic_status_notification
StatusNotificationAsync(request) ==
    /\ Running
    /\ Emits(send_async(request))
    /\ UNCHANGED <<lifecycle_vars, in_flight, status_vars, availability_vars,
                   transaction_vars, authorization_cache, crashed, aux_vars>>

(* ----------------------- inbound dispatch ----------------------------- *)
\* a dispatch that looks at the message type only
Dispatch_in_every_state(type) ==
    IF type = "BootNotificationResponse" THEN "boot" ELSE "handle_message"

\* ChargePoint::message_callback: what happens to a supported inbound message
\* of the given type in the current connection state
Dispatch(type) ==
    CASE connection_state = "Connected" ->
            IF type = "BootNotificationResponse" THEN "boot" ELSE "ignore"
      [] connection_state = "Rejected" ->
            IF registration_status = "Rejected" /\ type = "BootNotificationResponse"
            THEN "boot" ELSE "ignore"
      [] connection_state = "Pending" ->
            IF registration_status = "Pending"
            THEN IF type = "BootNotificationResponse" THEN "boot" ELSE "handle_message"
            ELSE "ignore"
      [] connection_state = "Booted" -> "handle_message"
      [] OTHER -> "ignore"

\* a CALLRESULT arrives for the Call in flight: MessageQueue::receive removes it
ResponseArrives(action) ==
    /\ websocket = "connected"
    /\ ~crashed
    /\ stop_transaction_mutex /= "message_callback"
    /\ in_flight
    /\ Head(queue).action = action
    /\ in_flight' = FALSE

\* constants.hpp: the seconds of a day, the unit of date::floor<date::days>
SECONDS_PER_DAY == 86400

\* date::get_tzdb().leap_seconds.size(): the leap seconds inserted since 1972
LeapSeconds == 27

\* the division of a duration by an integer, and std::chrono::duration_cast:
\* the quotient is truncated toward zero
truncated_quotient(a, b) == IF a >= 0 THEN a \div b ELSE -((-a) \div b)

\* update_clock_aligned_meter_values_interval, line 192: the midnight the
\* function computes for the time t
midnight_of(t) == (t \div SECONDS_PER_DAY) * SECONDS_PER_DAY + LeapSeconds

\* update_clock_aligned_meter_values_interval, lines 193-197: the time point
\* the timer is armed for at the time t with a non-zero interval
next_clock_aligned_time_point(t, clock_aligned_data_interval) ==
    LET midnight == midnight_of(t)
        diff == t - midnight
        start == truncated_quotient(diff, clock_aligned_data_interval)
                     * clock_aligned_data_interval + clock_aligned_data_interval
    IN midnight + start

\* ChargePoint::update_clock_aligned_meter_values_interval: with the interval
\* 0 it returns and leaves the timer as it is, otherwise it arms the timer for
\* the next multiple of the interval since midnight
update_clock_aligned_meter_values_interval(clock_aligned_data_interval) ==
    /\ clock_aligned_meter_values_timer' =
           IF clock_aligned_data_interval = 0 THEN clock_aligned_meter_values_timer ELSE TRUE
    /\ clock_aligned_meter_values_time_point' =
           IF clock_aligned_data_interval = 0 THEN clock_aligned_meter_values_time_point
           ELSE next_clock_aligned_time_point(now, clock_aligned_data_interval)
    /\ UNCHANGED now

\* a handler that sets connection_state for an Accepted response only
handleBootNotificationResponse_keeping_state(st, interval) ==
    /\ registration_status' = st
    /\ initialized' = TRUE
    /\ retry_time_reached' = FALSE
    /\ CASE st = "Accepted" ->
              /\ connection_state' = "Booted"
              /\ heartbeat_timer' = TRUE
              /\ update_clock_aligned_meter_values_interval(
                     configuration.ClockAlignedDataInterval)
              /\ RunStates(connector_availability)
              /\ UNCHANGED boot_notification_timer
         [] OTHER ->
              /\ boot_notification_timer' = IF interval = 0 THEN "now" ELSE "after_interval"
              /\ UNCHANGED <<connection_state, heartbeat_timer, status_vars, clock_vars>>

\* ChargePoint::handleBootNotificationResponse
handleBootNotificationResponse(st, interval) ==
    /\ registration_status' = st
    /\ initialized' = TRUE
    /\ retry_time_reached' = FALSE
    /\ CASE st = "Accepted" ->
              /\ connection_state' = "Booted"
              /\ heartbeat_timer' = TRUE
              /\ update_clock_aligned_meter_values_interval(
                     configuration.ClockAlignedDataInterval)
              /\ RunStates(connector_availability)
              /\ UNCHANGED boot_notification_timer
         [] st = "Pending" ->
              /\ connection_state' = "Pending"
              /\ boot_notification_timer' = IF interval = 0 THEN "now" ELSE "after_interval"
              /\ UNCHANGED <<heartbeat_timer, status_vars, clock_vars>>
         [] OTHER ->
              /\ connection_state' = "Rejected"
              /\ boot_notification_timer' = IF interval = 0 THEN "now" ELSE "after_interval"
              /\ UNCHANGED <<heartbeat_timer, status_vars, clock_vars>>

\* interval of a BootNotificationResponse: 0, or some positive number of seconds
Intervals == {0, 60}

BootNotificationResponse(st, interval) ==
    /\ ResponseArrives("BootNotification")
    /\ queue' = Tail(queue)
    /\ out' = <<>>
    /\ IF Dispatch("BootNotificationResponse") = "boot"
       THEN handleBootNotificationResponse(st, interval)
       ELSE UNCHANGED <<registration_status, initialized, retry_time_reached,
                        connection_state, heartbeat_timer, boot_notification_timer,
                        status_vars, clock_vars>>
    /\ history' = [history EXCEPT !.boot_accepted = @ \/ st = "Accepted"]
    /\ UNCHANGED <<websocket, stopped, availability_vars, transaction_vars,
                   authorization_cache, crashed, list_vars, reset_vars, profile_vars,
                   security_vars>>

\* MessageQueue::add_stopped_transaction_id: the queued StopTransaction with
\* that message id gets the transactionId
add_stopped_transaction_id(q, s, txid) ==
    [i \in 1..Len(q) |->
        IF q[i].action = "StopTransaction" /\ q[i].session = s
        THEN [q[i] EXCEPT !.transactionId = txid]
        ELSE q[i]]

IdTagInfo(st) == [status |-> st, expiryDate |-> "none"]

\* ChargePoint::handleStartTransactionResponse for the StartTransaction of
\* session s, on the queue q that remains
handleStartTransactionResponse(q, s, txid, id_status, stop_on_invalid) ==
    LET transaction == get_transaction_by_message(s)
    IN IF transaction = None
       THEN /\ crashed' = TRUE
            /\ queue' = q
            /\ out' = <<>>
            /\ UNCHANGED <<transactions, db_transactions, authorization_cache>>
       ELSE /\ queue' = IF transactions[s].finished
                        THEN add_stopped_transaction_id(q, s, txid) ELSE q
            /\ transactions' = [transactions EXCEPT ![s].transaction_id = txid]
            /\ db_transactions' =
                  {IF e.session = s THEN [e EXCEPT !.transaction_id = txid] ELSE e :
                      e \in db_transactions}
            /\ authorization_cache' =
                  [authorization_cache EXCEPT ![SessionIdTag] = IdTagInfo(id_status)]
            /\ out' = IF id_status /= "Accepted"
                      THEN <<Emit("callback", "pause_charging_callback",
                                  transactions[s].connector, "-")>>
                           \o (IF stop_on_invalid
                               THEN <<Emit("callback", "stop_transaction_callback",
                                           transactions[s].connector, "DeAuthorized")>>
                               ELSE <<>>)
                      ELSE <<>>
            /\ UNCHANGED crashed

StartTransactionResponse(txid, id_status, stop_on_invalid) ==
    /\ ResponseArrives("StartTransaction")
    /\ IF Dispatch("StartTransactionResponse") = "handle_message"
       THEN handleStartTransactionResponse(Tail(queue), Head(queue).session, txid,
                                           id_status, stop_on_invalid)
       ELSE /\ queue' = Tail(queue)
            /\ out' = <<>>
            /\ UNCHANGED <<transactions, db_transactions, authorization_cache, crashed>>
    /\ history' = [history EXCEPT !.start_response[Head(queue).session] = txid]
    /\ UNCHANGED <<lifecycle_vars, status_vars, availability_vars, active_transactions,
                   stopped_transactions, connector_transaction, next_session, aux_vars>>

\* the AvailabilityType takes effect on the connector: persisted, the callback
\* invoked, the event submitted (handleChangeAvailabilityRequest, lines 945-960;
\* handleStopTransactionResponse, lines 1364-1380)
AvailabilityEvent(type) ==
    IF type = "Operative" THEN "BecomeAvailable" ELSE "ChangeAvailabilityToUnavailable"

AvailabilityCallback(connector, type) ==
    <<Emit("callback",
           IF type = "Operative" THEN "enable_evse_callback" ELSE "disable_evse_callback",
           connector, "-"),
      Emit("event", AvailabilityEvent(type), connector, "-")>>

\* the connector handleStopTransactionResponse works on (line 1343)
StopTransactionResponseConnector(s) == 1

\* ChargePoint::handleStopTransactionResponse for the StopTransaction of session s
handleStopTransactionResponse(s, id_status) ==
    LET connector == StopTransactionResponseConnector(s)
        change_queued == change_availability_queue[connector] /= "none"
        connector_availability_queued == change_availability_queue[connector]
    IN /\ authorization_cache' =
              IF id_status /= "none" /\ s \in stopped_transactions
              THEN [authorization_cache EXCEPT ![SessionIdTag] = IdTagInfo(id_status)]
              ELSE authorization_cache
       /\ change_availability_queue' =
              [change_availability_queue EXCEPT ![connector] = "none"]
       /\ IF change_queued
          THEN /\ connector_availability' =
                     [connector_availability EXCEPT
                         ![connector] = connector_availability_queued]
               /\ out' = <<Emit("persist", "insert_or_update_connector_availability",
                                connector, connector_availability_queued)>>
                         \o AvailabilityCallback(connector, connector_availability_queued)
               /\ SubmitEvents([NoEvents EXCEPT
                     ![connector] = AvailabilityEvent(connector_availability_queued)])
          ELSE /\ out' = <<>>
               /\ UNCHANGED <<connector_availability, status_vars>>
       /\ stopped_transactions' = stopped_transactions \ {s}

StopTransactionResponse(id_status) ==
    /\ ResponseArrives("StopTransaction")
    /\ queue' = Tail(queue)
    /\ IF Dispatch("StopTransactionResponse") = "handle_message"
       THEN handleStopTransactionResponse(Head(queue).session, id_status)
       ELSE /\ out' = <<>>
            /\ UNCHANGED <<authorization_cache, availability_vars, status_vars,
                           stopped_transactions>>
    /\ UNCHANGED history
    /\ UNCHANGED <<lifecycle_vars, active_transactions, connector_transaction,
                   transactions, next_session, db_transactions, crashed, aux_vars>>

(* -------------------- central system requests ------------------------- *)
\* a CALL of the given type arrives and message_callback hands it to
\* handle_message; the thread that runs message_callback is not blocked in a
\* handler
RequestArrives(type) ==
    /\ websocket = "connected"
    /\ ~crashed
    /\ stop_transaction_mutex /= "message_callback"
    /\ Dispatch(type) = "handle_message"

\* the type is recorded for every connector a request for connector 0 targets
ScheduledConnectors_every_target(connectorId) ==
    IF connectorId = 0 THEN Connectors ELSE {}

\* handleChangeAvailabilityRequest, lines 923-940: the connectors for which the
\* requested type is recorded in change_availability_queue
ScheduledConnectors(connectorId) ==
    IF connectorId = 0
    THEN {c \in Connectors : transaction_active(c)}
    ELSE {}

\* ChargePoint::handleChangeAvailabilityRequest
ChangeAvailabilityRequest(connectorId, type) ==
    /\ RequestArrives("ChangeAvailability")
    /\ LET valid == connectorId <= NumberOfConnectors /\ connectorId >= 0
           targets == IF connectorId = 0 THEN Connectors ELSE {connectorId}
           transaction_running == valid /\ \E c \in targets : transaction_active(c)
           connectors == SeqOfSet({c \in targets : ~transaction_active(c)})
           RECURSIVE callbacks(_)
           callbacks(i) == IF i > Len(connectors) THEN <<>>
                           ELSE AvailabilityCallback(connectors[i], type) \o callbacks(i + 1)
           request == <<Emit("request", "ChangeAvailability", connectorId, type)>>
           reply(st) == <<Emit("reply", "ChangeAvailabilityResponse", connectorId, st)>>
       IN IF ~valid
          THEN /\ out' = request \o reply("Rejected")
               /\ UNCHANGED <<availability_vars, status_vars, history>>
          ELSE /\ history' =
                     IF transaction_running
                     THEN [history EXCEPT !.scheduled = [c \in Connectors |->
                             IF c \in targets /\ transaction_active(c)
                             THEN [connectorId |-> connectorId, type |-> type,
                                   session |-> get_transaction(c)]
                             ELSE @[c]]]
                     ELSE history
               /\ change_availability_queue' =
                     [c \in Connectors |->
                         IF c \in ScheduledConnectors(connectorId) THEN type
                         ELSE change_availability_queue[c]]
               /\ IF transaction_running
                  THEN /\ out' = request \o reply("Scheduled")
                       /\ UNCHANGED <<connector_availability, status_vars>>
                  ELSE /\ connector_availability' =
                             [c \in Connectors |->
                                 IF c \in Range(connectors) THEN type
                                 ELSE connector_availability[c]]
                       /\ SubmitEvents([c \in AllConnectors |->
                             IF c \in Range(connectors) THEN AvailabilityEvent(type)
                             ELSE "none"])
                       /\ out' = request \o [i \in 1..Len(connectors) |->
                                    Emit("persist", "insert_or_update_connector_availability",
                                         connectors[i], type)]
                                 \o callbacks(1) \o reply("Accepted")
    /\ UNCHANGED <<lifecycle_vars, queue_vars, transaction_vars, authorization_cache,
                   crashed, aux_vars>>

MessageTriggers == {"BootNotification", "DiagnosticsStatusNotification",
                    "FirmwareStatusNotification", "Heartbeat", "MeterValues",
                    "StatusNotification"}

\* ChargePoint::handleTriggerMessageRequest
TriggerMessageRequest(requestedMessage, connector) ==
    /\ RequestArrives("TriggerMessage")
    /\ QueueHasRoom
    /\ LET valid == ~(connector < 0 \/ connector > NumberOfConnectors)
           st == IF valid THEN "Accepted" ELSE "Rejected"
           requested ==
             CASE requestedMessage = "BootNotification" ->
                    boot_notification(initialized, registration_status, retry_time_reached)
               [] requestedMessage = "DiagnosticsStatusNotification" ->
                    send_async(DiagnosticsStatusNotificationRequest)
               [] requestedMessage = "FirmwareStatusNotification" ->
                    send_async(FirmwareStatusNotificationRequest)
               [] requestedMessage = "Heartbeat" -> send(HeartbeatRequest)
               [] requestedMessage = "MeterValues" -> send_meter_value(connector, 1)
               [] OTHER -> status_notification(connector, status[connector])
       IN Emits(<<Emit("request", "TriggerMessage", connector, requestedMessage),
                  Emit("reply", "TriggerMessageResponse", connector, st)>>
                \o (IF valid THEN requested ELSE <<>>))
    /\ UNCHANGED <<lifecycle_vars, in_flight, status_vars, availability_vars,
                   transaction_vars, authorization_cache, crashed, aux_vars>>

ExtendedMessageTriggers == {"BootNotification", "FirmwareStatusNotification", "Heartbeat",
                            "LogStatusNotification", "MeterValues",
                            "SignChargePointCertificate", "StatusNotification"}

\* a status that takes SignChargePointCertificate without a CpoName
extended_trigger_status_whatever_cpo_name(requestedMessage, connector) ==
    IF connector < 0 \/ connector > NumberOfConnectors THEN "Rejected" ELSE "Accepted"

\* handleExtendedTriggerMessageRequest, lines 1623-1656: the response status
extended_trigger_status(requestedMessage, connector) ==
    IF \/ requestedMessage = "SignChargePointCertificate" /\ configuration.CpoName = "none"
       \/ connector < 0
       \/ connector > NumberOfConnectors
    THEN "Rejected" ELSE "Accepted"

\* ChargePoint::handleExtendedTriggerMessageRequest
ExtendedTriggerMessageRequest(requestedMessage, connector) ==
    /\ RequestArrives("ExtendedTriggerMessage")
    /\ QueueHasRoom
    /\ LET st == extended_trigger_status(requestedMessage, connector)
           notification(action) == send(Call(action, 0, None, None, "-"))
           requested ==
             CASE requestedMessage = "BootNotification" ->
                    boot_notification(initialized, registration_status, retry_time_reached)
               [] requestedMessage = "FirmwareStatusNotification" ->
                    notification("SignedFirmwareStatusNotification")
               [] requestedMessage = "Heartbeat" -> send(HeartbeatRequest)
               [] requestedMessage = "LogStatusNotification" ->
                    notification("LogStatusNotification")
               [] requestedMessage = "MeterValues" -> send_meter_value(connector, 1)
               [] requestedMessage = "SignChargePointCertificate" ->
                    notification("SignCertificate")
               [] OTHER -> status_notification(connector, status[connector])
       IN Emits(<<Emit("request", "ExtendedTriggerMessage", connector, requestedMessage),
                  Emit("reply", "ExtendedTriggerMessageResponse", connector, st)>>
                \o (IF st = "Accepted" THEN requested ELSE <<>>))
    /\ UNCHANGED <<lifecycle_vars, in_flight, status_vars, availability_vars,
                   transaction_vars, authorization_cache, crashed, aux_vars>>

(* ------------------------- specification ------------------------------ *)
IdTags == {"TAG01", "TAG02"}
NoEntry == [status |-> "none", expiryDate |-> "none"]
NoSchedule == [connectorId |-> 0, type |-> "none", session |-> None]
NoClear == [handled |-> FALSE, request |-> ProfileFilter({}, {}, {}, {}), status |-> "none",
            previous |-> "none"]
\* no Reset was accepted: the sessions active at the accepted Reset request,
\* and whether the wait of the reset thread ended by its timeout
NoReset == [active |-> {}, timed_out |-> FALSE]

\* the configuration keys the handlers of this model read
DefaultConfiguration ==
    [LocalAuthListEnabled |-> TRUE, LocalPreAuthorize |-> FALSE,
     LocalAuthorizeOffline |-> FALSE, AuthorizationCacheEnabled |-> FALSE,
     AllowOfflineTxForUnknownId |-> "none", MinimumStatusDuration |-> 0,
     AuthorizeRemoteTxRequests |-> TRUE, SecurityProfile |-> 0, CpoName |-> "none",
     ClockAlignedDataInterval |-> 0]

vars == <<websocket, initialized, registration_status, connection_state, stopped,
          retry_time_reached, boot_notification_timer, heartbeat_timer, queue, in_flight,
          status, status_notification_timers, status_notification_clock,
          connector_availability,
          change_availability_queue, active_transactions, stopped_transactions,
          connector_transaction, transactions, next_session, db_transactions,
          authorization_cache, crashed, configuration, local_list_version,
          local_authorization_list, reset_pc, stop_transaction_mutex, charging_profiles,
          security, clock_aligned_meter_values_timer, clock_aligned_meter_values_time_point,
          now,
          history, out>>

\* the state the constructor leaves (lines 14-76)
Init ==
    /\ websocket = "null"
    /\ security = NoSwitch
    /\ clock_aligned_meter_values_timer = FALSE
    /\ clock_aligned_meter_values_time_point = 0
    /\ now = SECONDS_PER_DAY
    /\ initialized = FALSE
    /\ registration_status = "Pending"
    /\ connection_state = "Disconnected"
    /\ stopped = FALSE
    /\ retry_time_reached = TRUE
    /\ boot_notification_timer = "stopped"
    /\ heartbeat_timer = FALSE
    /\ queue = <<>>
    /\ in_flight = FALSE
    /\ status = [c \in AllConnectors |-> "Available"]
    /\ status_notification_timers = [c \in AllConnectors |-> "stopped"]
    /\ connector_availability = [c \in Connectors |-> "Operative"]
    /\ change_availability_queue = [c \in Connectors |-> "none"]
    /\ active_transactions = [c \in Connectors |-> None]
    /\ stopped_transactions = {}
    /\ connector_transaction = [c \in Connectors |-> None]
    /\ transactions = [s \in Sessions |-> NoTransaction]
    /\ db_transactions = {}
    /\ crashed = FALSE
    /\ reset_pc = "none"
    /\ stop_transaction_mutex = "free"
    /\ history = [start_enqueued |-> {}, start_response |-> [s \in Sessions |-> None],
                  scheduled |-> [c \in Connectors |-> NoSchedule], boot_accepted |-> FALSE,
                  last_clear |-> NoClear, reset |-> NoReset]
    /\ out = <<>>

\* the age of a connector that was not notified yet: one more than
\* MinimumStatusDuration, at which the age of a notified connector stops (with
\* no minimum duration the age carries no information and stays 0)
NotNotified ==
    IF configuration.MinimumStatusDuration = 0 THEN 0
    ELSE configuration.MinimumStatusDuration + 1

\* no status notification timer is armed, no connector was notified
TimersIdle ==
    status_notification_clock =
        [due |-> [c \in AllConnectors |-> 0], age |-> [c \in AllConnectors |-> NotNotified],
         gap |-> [c \in AllConnectors |-> NotNotified]]

\* the durable store holds no authorization data; the default configuration
EmptyStore ==
    /\ authorization_cache = [t \in IdTags |-> NoEntry]
    /\ local_list_version = 0
    /\ local_authorization_list = [t \in IdTags |-> NoEntry]
    /\ configuration = DefaultConfiguration
    /\ TimersIdle
    /\ charging_profiles = {}

\* a new charge point on which the operator starts one charging session
InitOneSession == Init /\ EmptyStore /\ next_session = MaxSessions

\* a new charge point on which the operator starts MaxSessions charging sessions
InitAllSessions == Init /\ EmptyStore /\ next_session = 1

\* The registration lifecycle with every origin of an outbound request: one
\* charging session, the central system answers StartTransaction with one id.
Next ==
    \/ Start
    \/ Stop
    \/ Restart
    \/ WebsocketConnected
    \/ WebsocketDisconnected
    \/ QueueTransmit
    \/ BootNotificationTimer
    \/ HeartbeatTimer
    \/ \E c \in AllConnectors : StatusNotificationTimer(c)
    \/ RetryTimeReached
    \/ \E c \in Connectors : OnTransactionStarted(c)
    \/ \E c \in Connectors : OnTransactionStopped(c)
    \/ \E c \in Connectors : MeterValuesSampleTimer(c)
    \/ StatusNotificationAsync(FirmwareStatusNotificationRequest)
    \/ \E st \in {"Accepted", "Pending", "Rejected"}, i \in Intervals :
          BootNotificationResponse(st, i)
    \/ StartTransactionResponse(7, "Accepted", FALSE)
    \/ StopTransactionResponse("none")
    \/ \E m \in MessageTriggers : TriggerMessageRequest(m, 0)

Spec == InitOneSession /\ [][Next]_vars

(* ------------------- C1: boot before traffic -------------------------- *)
\* C1: until a BootNotificationResponse with status Accepted has been received,
\* every Call a handler hands to the message queue is a BootNotification or a
\* StopTransaction.
C1_BootBeforeTraffic ==
    ~history.boot_accepted =>
        \A i \in 1..Len(PushedCalls) : PushedCalls[i].msg.action \in GateOpenActions

(* ------------------ C5: reconnect without reboot ---------------------- *)
WebsocketConnectedStep == websocket = "connecting" /\ websocket' = "connected"

\* the StatusNotifications a reconnect has to enqueue: one per connector
\* 0..NumberOfConnectors, in order, with the connector's state
ReconnectNotifications(st) ==
    [i \in 1..(NumberOfConnectors + 1) |->
        Pushed(StatusNotificationRequest(i - 1, st[i - 1]))]

\* C5: when the connected callback runs while connection_state is Booted,
\* exactly one StatusNotification per connector 0..NumberOfConnectors is
\* enqueued, carrying that connector's current state, and no BootNotification.
C5_ReconnectWithoutReboot ==
    [][(WebsocketConnectedStep /\ connection_state = "Booted")
          => out' = ReconnectNotifications(status)]_vars

C5_Witness ==
    /\ connection_state = "Booted"
    /\ websocket = "connected"
    /\ out = ReconnectNotifications(status)
    /\ \E c \in Connectors : status[c] /= "Available"

(* ---------------- transactions in every registration state ------------ *)
\* Two charging sessions under every answer to BootNotification; the central
\* system hands out the transactionIds of ServerTxIds.
NextTx ==
    \/ Start
    \/ WebsocketConnected
    \/ WebsocketDisconnected
    \/ QueueTransmit
    \/ BootNotificationTimer
    \/ RetryTimeReached
    \/ \E c \in Connectors : OnTransactionStarted(c)
    \/ \E c \in Connectors : OnTransactionStopped(c)
    \/ \E c \in Connectors : MeterValuesSampleTimer(c)
    \/ \E st \in {"Accepted", "Pending", "Rejected"} : BootNotificationResponse(st, 60)
    \/ \E txid \in ServerTxIds : StartTransactionResponse(txid, "Accepted", FALSE)
    \/ StopTransactionResponse("none")

SpecTx == InitAllSessions /\ [][NextTx]_vars

\* C2: a StopTransaction is handed to the queue only for a transaction whose
\* StartTransaction was handed to the queue earlier, and a MeterValues carries
\* the transactionId of a transaction only after its StartTransaction and
\* before its StopTransaction.
C2_TransactionOrdering ==
    \A i \in 1..Len(PushedCalls) :
        LET call == PushedCalls[i].msg
        IN /\ call.action = "StopTransaction" => call.session \in history.start_enqueued
           /\ (call.action = "MeterValues" /\ call.transactionId /= None) =>
                 \E s \in history.start_enqueued :
                    /\ transactions[s].transaction_id = call.transactionId
                    /\ ~transactions[s].finished

QueueTransmitStep == ~in_flight /\ in_flight'

\* C3: a StopTransaction that is transmitted after the StartTransactionResponse
\* of its transaction was received carries the transactionId of that response.
C3_StopCarriesServerId ==
    [][(/\ QueueTransmitStep
        /\ Head(queue).action = "StopTransaction"
        /\ history.start_response[Head(queue).session] /= None)
          => Head(queue).transactionId = history.start_response[Head(queue).session]]_vars

\* C4: a connector's Connector.transaction is the transaction the transaction
\* handler holds as active for it; a second on_transaction_started leaves both.
C4_OneActiveTransaction ==
    \A c \in Connectors :
        transaction_active(c) => connector_transaction[c] = get_transaction(c)

(* ---------------------- availability changes -------------------------- *)
\* An accepted charge point with one charging session; the central system
\* sends ChangeAvailability for every connectorId, the out of range ones included.
ConnectorIds == -1..(NumberOfConnectors + 1)
AvailabilityTypes == {"Operative", "Inoperative"}

NextAvail ==
    \/ Start
    \/ WebsocketConnected
    \/ QueueTransmit
    \/ BootNotificationResponse("Accepted", 60)
    \/ \E c \in AllConnectors : StatusNotificationTimer(c)
    \/ \E c \in Connectors : OnTransactionStarted(c)
    \/ \E c \in Connectors : OnTransactionStopped(c)
    \/ StartTransactionResponse(7, "Accepted", FALSE)
    \/ StopTransactionResponse("none")
    \/ \E c \in ConnectorIds, type \in AvailabilityTypes : ChangeAvailabilityRequest(c, type)

SpecAvail == InitOneSession /\ [][NextAvail]_vars

\* the availability type takes effect on connector c in this step
AvailabilityApplied(c, type) ==
    /\ connector_availability'[c] = type
    /\ Emit("persist", "insert_or_update_connector_availability", c, type) \in Range(out')
    /\ \A i \in 1..2 : AvailabilityCallback(c, type)[i] \in Range(out')

\* C7: when ChangeAvailability(connectorId = c >= 1, type) was answered Scheduled
\* because of c's active transaction, handling that transaction's
\* StopTransactionResponse persists the type for c, invokes the callback and
\* submits the event for c.
C7_ScheduledChangeIsApplied ==
    [][\A c \in Connectors :
          LET r == history.scheduled[c]
          IN (/\ r.connectorId = c
              /\ r.session \in stopped_transactions
              /\ r.session \notin stopped_transactions')
                => AvailabilityApplied(c, r.type)]_vars

ChangeAvailabilityStep ==
    /\ out' /= <<>>
    /\ out'[1] \in {Emit("request", "ChangeAvailability", c, type) :
                       c \in ConnectorIds, type \in AvailabilityTypes}

\* C8: a ChangeAvailability for a connectorId in range is answered Scheduled iff
\* a targeted connector has an active transaction, and then the type is
\* recorded in change_availability_queue for every such connector; otherwise it
\* is answered Accepted and takes effect on every targeted connector.  Out of
\* range it is answered Rejected and nothing changes.
C8_ChangeAvailabilityResponse ==
    [][ChangeAvailabilityStep =>
          LET connectorId == out'[1].msg.connector
              type == out'[1].msg.status
              answer == out'[Len(out')].msg.status
              targets == IF connectorId = 0 THEN Connectors ELSE {connectorId}
              busy == {c \in targets : transaction_active(c)}
          IN IF connectorId \notin AllConnectors
             THEN answer = "Rejected" /\ UNCHANGED <<availability_vars, status_vars>>
             ELSE IF busy /= {}
                  THEN /\ answer = "Scheduled"
                       /\ \A c \in busy : change_availability_queue'[c] = type
                  ELSE /\ answer = "Accepted"
                       /\ \A c \in targets : AvailabilityApplied(c, type)]_vars

(* ------------------------ local authorization list -------------------- *)
\* highest listVersion the central system sends
MaxListVersion == 2
ListVersions == 0..MaxListVersion

\* localAuthorizationList of a SendLocalList: absent, or entries; an entry
\* without idTagInfo (status "none") removes the idTag
LocalListEntries ==
    {{}, {[idTag |-> "TAG01", status |-> "Accepted"]},
     {[idTag |-> "TAG02", status |-> "Blocked"]},
     {[idTag |-> "TAG01", status |-> "none"]}}
LocalListUpdates ==
    {[present |-> FALSE, entries |-> {}]}
        \cup {[present |-> TRUE, entries |-> e] : e \in LocalListEntries}

\* DatabaseHandler::insert_or_update_local_authorization_list
insert_or_update_local_authorization_list(list, entries) ==
    [t \in IdTags |->
        IF \E e \in entries : e.idTag = t
        THEN IdTagInfo((CHOOSE e \in entries : e.idTag = t).status)
        ELSE list[t]]

\* DatabaseHandler::clear_local_authorization_list
clear_local_authorization_list == [t \in IdTags |-> NoEntry]

\* a version test letting an equal version through
differential_update_applies_on_equal(stored, listVersion) == stored <= listVersion

\* the version test of a Differential update (line 1942)
differential_update_applies(stored, listVersion) == stored < listVersion

SendLocalListEvent(kind, listVersion, updateType, present, st) ==
    [kind |-> kind,
     msg |-> [action |-> "SendLocalList", listVersion |-> listVersion,
              updateType |-> updateType, present |-> present, status |-> st]]

\* ChargePoint::handleSendLocalListRequest
SendLocalListRequest(listVersion, updateType, update) ==
    /\ RequestArrives("SendLocalList")
    /\ LET applies == differential_update_applies(local_list_version, listVersion)
           st == CASE ~configuration.LocalAuthListEnabled -> "NotSupported"
                   [] updateType = "Full" -> "Accepted"
                   [] updateType = "Differential" /\ update.present ->
                         IF applies THEN "Accepted" ELSE "VersionMismatch"
                   [] OTHER -> "Failed"
       IN /\ local_list_version' = IF st = "Accepted" THEN listVersion
                                   ELSE local_list_version
          /\ local_authorization_list' =
                IF st /= "Accepted" THEN local_authorization_list
                ELSE IF updateType = "Full"
                     THEN insert_or_update_local_authorization_list(
                              clear_local_authorization_list, update.entries)
                     ELSE insert_or_update_local_authorization_list(
                              local_authorization_list, update.entries)
          /\ out' = <<SendLocalListEvent("request", listVersion, updateType,
                                         update.present, "-"),
                      SendLocalListEvent("reply", listVersion, updateType,
                                         update.present, st)>>
    /\ UNCHANGED <<lifecycle_vars, queue_vars, status_vars, availability_vars,
                   transaction_vars, authorization_cache, crashed, configuration,
                   reset_vars, extra_vars, history>>

\* An accepted charge point, the local list enabled or not; the central system
\* sends every SendLocalList of the bounds.
NextLocalList ==
    \/ Start
    \/ WebsocketConnected
    \/ QueueTransmit
    \/ BootNotificationResponse("Accepted", 60)
    \/ \E v \in ListVersions, u \in {"Full", "Differential"}, l \in LocalListUpdates :
          SendLocalListRequest(v, u, l)

\* a charge point whose store holds a list version of an earlier run
InitLocalList ==
    /\ Init
    /\ next_session = 1
    /\ authorization_cache = [t \in IdTags |-> NoEntry]
    /\ local_list_version \in ListVersions
    /\ charging_profiles = {}
    /\ local_authorization_list = [t \in IdTags |-> NoEntry]
    /\ configuration \in {[DefaultConfiguration EXCEPT !.LocalAuthListEnabled = b] :
                             b \in BOOLEAN}
    /\ TimersIdle

SpecLocalList == InitLocalList /\ [][NextLocalList]_vars

SendLocalListAccepted(updateType) ==
    /\ out' /= <<>>
    /\ out'[Len(out')] \in {SendLocalListEvent("reply", v, updateType, b, "Accepted") :
                               v \in ListVersions, b \in BOOLEAN}

ExpiryDates == {"none", "past", "future"}

\* a validation that does not look at the expiryDate
cache_entry_valid_whatever_expiry(entry) ==
    entry.status = "Accepted"

\* validate_against_cache_entries, lines 1226-1238: the entry counts as a hit
cache_entry_valid(entry) ==
    entry.status = "Accepted" /\ entry.expiryDate /= "past"

\* ChargePoint::validate_against_cache_entries: the result and the cache entry
\* it leaves in the store
validate_against_cache_entries(entry) ==
    [valid |-> entry.status /= "none" /\ cache_entry_valid(entry),
     entry |-> IF entry.status = "Accepted" /\ entry.expiryDate = "past"
               THEN [entry EXCEPT !.status = "Expired"]
               ELSE entry]

\* how the future of the Authorize call resolves: an AuthorizeResponse, the
\* queue going offline, or anything else (a CALLERROR)
NoResponse == [status |-> "none", expiryDate |-> "none"]
AuthorizeResponses ==
    {[status |-> st, expiryDate |-> e] : st \in {"Accepted", "Invalid"},
                                          e \in {"none", "future"}}
AuthorizeOutcomes ==
    {[offline |-> FALSE, response |-> r] : r \in AuthorizeResponses}
        \cup {[offline |-> b, response |-> NoResponse] : b \in BOOLEAN}

\* authorize_id_token, lines 2055-2056: authorization from the local list or
\* the cache applies
local_authorization_applies ==
    \/ configuration.LocalPreAuthorize /\ websocket = "connected"
    \/ configuration.LocalAuthorizeOffline /\ websocket /= "connected"

local_list_hit(idTag) ==
    /\ local_authorization_applies
    /\ configuration.LocalAuthListEnabled
    /\ local_authorization_list[idTag].status /= "none"

cache_consulted(idTag) ==
    /\ local_authorization_applies
    /\ ~local_list_hit(idTag)
    /\ configuration.AuthorizationCacheEnabled

AuthorizeRequest(idTag) == Call("Authorize", 0, None, None, idTag)

\* a fallback that accepts whenever AllowOfflineTxForUnknownId is set
offline_id_tag_info_when_set(offline) ==
    IF offline /\ configuration.AllowOfflineTxForUnknownId /= "none"
    THEN IdTagInfo("Accepted")
    ELSE IdTagInfo("Invalid")

\* authorize_id_token, lines 2087-2095: the result when the future did not
\* resolve with an AuthorizeResponse
offline_id_tag_info(offline) ==
    IF offline /\ configuration.AllowOfflineTxForUnknownId = "true"
    THEN IdTagInfo("Accepted")
    ELSE IdTagInfo("Invalid")

AuthorizeEvent(kind, idTag, info) == [kind |-> kind, msg |-> [idTag |-> idTag, info |-> info]]

\* ChargePoint::authorize_id_token, the wait for the future included
AuthorizeIdToken(idTag, outcome) ==
    /\ Running
    /\ LET validation == validate_against_cache_entries(authorization_cache[idTag])
           validated == IF cache_consulted(idTag)
                        THEN [authorization_cache EXCEPT ![idTag] = validation.entry]
                        ELSE authorization_cache
           call == <<AuthorizeEvent("call", idTag, NoResponse)>>
           return(info) == <<AuthorizeEvent("return", idTag, info)>>
           future == <<[kind |-> "future", msg |-> outcome]>>
       IN IF local_list_hit(idTag)
          THEN /\ out' = call \o return(local_authorization_list[idTag])
               /\ UNCHANGED authorization_cache
          ELSE IF cache_consulted(idTag) /\ validation.valid
               THEN /\ out' = call \o return(validated[idTag])
                    /\ authorization_cache' = validated
               ELSE /\ authorization_cache' =
                          IF outcome.response.status = "Accepted"
                          THEN [validated EXCEPT ![idTag] = outcome.response]
                          ELSE validated
                    /\ out' = call \o send_async(AuthorizeRequest(idTag)) \o future
                               \o return(
                                     IF outcome.response.status /= "none"
                                     THEN outcome.response
                                     ELSE offline_id_tag_info(outcome.offline))
    /\ UNCHANGED <<lifecycle_vars, queue_vars, status_vars, availability_vars,
                   transaction_vars, crashed, list_vars, reset_vars, extra_vars, history>>

\* the cache entries and the local list an earlier run left for TAG02
StoredCacheEntries ==
    {NoEntry} \cup {[status |-> st, expiryDate |-> e] : st \in {"Accepted", "Blocked"},
                                                       e \in ExpiryDates}
Configurations ==
    [LocalAuthListEnabled : BOOLEAN, LocalPreAuthorize : BOOLEAN,
     LocalAuthorizeOffline : BOOLEAN, AuthorizationCacheEnabled : BOOLEAN,
     AllowOfflineTxForUnknownId : {"none", "true", "false"}, MinimumStatusDuration : {0},
     AuthorizeRemoteTxRequests : {TRUE}, SecurityProfile : {0}, CpoName : {"none"},
     ClockAlignedDataInterval : {0}]

InitAuth ==
    /\ Init
    /\ next_session = 1
    /\ charging_profiles = {}
    /\ configuration \in Configurations
    /\ TimersIdle
    /\ local_list_version = 0
    /\ local_authorization_list \in
          {[t \in IdTags |-> IF t = "TAG02" THEN e ELSE NoEntry] :
              e \in {NoEntry, IdTagInfo("Accepted")}}
    /\ authorization_cache \in
          {[t \in IdTags |-> IF t = "TAG02" THEN e ELSE NoEntry] : e \in StoredCacheEntries}

\* A started charge point, online and offline, with every configuration of the
\* authorization and every stored cache entry; the operator authorizes idTags.
NextAuth ==
    \/ Start
    \/ WebsocketConnected
    \/ WebsocketDisconnected
    \/ \E t \in IdTags, o \in AuthorizeOutcomes : AuthorizeIdToken(t, o)

SpecAuth == InitAuth /\ [][NextAuth]_vars

AuthorizeStep(idTag) ==
    /\ out' /= <<>>
    /\ out'[1] = AuthorizeEvent("call", idTag, NoResponse)

Returned(o) == o[Len(o)].msg.info

\* C10: authorize_id_token for an idTag whose cache entry has an
\* expiryDate in the past returns Invalid and leaves the entry with status
\* Expired, in every configuration, online and offline.
C10_ExpiredEntryYieldsInvalid ==
    [][\A t \in IdTags :
          (/\ AuthorizeStep(t)
           /\ authorization_cache[t].status /= "none"
           /\ authorization_cache[t].expiryDate = "past")
             => /\ Returned(out').status = "Invalid"
                /\ authorization_cache'[t].status = "Expired"]_vars

(* ------------------------------- reset -------------------------------- *)
\* the sessions with an active transaction
ActiveSessions == {active_transactions[c] : c \in Connectors} \ {None}

\* the wait predicate of the reset thread (lines 1289-1296)
all_transactions_stopped == \A c \in Connectors : ~transaction_active(c)

\* ChargePoint::handleResetRequest on the inbound thread: the response, the
\* reset thread created, stop_all_transactions with the reset's reason
ResetRequest(type, is_reset_allowed) ==
    /\ RequestArrives("Reset")
    /\ reset_pc = "none"
    /\ IF is_reset_allowed
       THEN /\ out' = <<Emit("request", "Reset", 0, type),
                        Emit("reply", "ResetResponse", 0, "Accepted")>>
                       \o stop_all_transactions(IF type = "Soft" THEN "SoftReset"
                                                ELSE "HardReset")
            /\ reset_pc' = "created"
            /\ history' = [history EXCEPT !.reset = [active |-> ActiveSessions,
                                                     timed_out |-> FALSE]]
       ELSE /\ out' = <<Emit("request", "Reset", 0, type),
                        Emit("reply", "ResetResponse", 0, "Rejected")>>
            /\ UNCHANGED <<reset_pc, history>>
    /\ UNCHANGED <<lifecycle_vars, queue_vars, status_vars, availability_vars,
                   transaction_vars, authorization_cache, crashed, list_vars,
                   stop_transaction_mutex, extra_vars>>

\* reset thread, lines 1288-1289: lock stop_transaction_mutex and enter wait_for,
\* which releases the mutex while the predicate is false
ResetThreadWait ==
    /\ reset_pc = "created"
    /\ ~crashed
    /\ stop_transaction_mutex = "free"
    /\ IF all_transactions_stopped
       THEN reset_pc' = "stopping" /\ stop_transaction_mutex' = "reset_thread"
       ELSE reset_pc' = "waiting" /\ UNCHANGED stop_transaction_mutex
    /\ out' = <<>>
    /\ UNCHANGED <<lifecycle_vars, queue_vars, status_vars, availability_vars,
                   transaction_vars, authorization_cache, crashed, list_vars, extra_vars, history>>

\* reset thread, wait_for returns: the predicate holds after a wake-up, or the
\* 5 s have passed; the mutex is locked again
ResetThreadWake(timed_out) ==
    /\ reset_pc = "waiting"
    /\ ~crashed
    /\ stop_transaction_mutex = "free"
    /\ all_transactions_stopped \/ timed_out
    /\ reset_pc' = "stopping"
    /\ stop_transaction_mutex' = "reset_thread"
    /\ out' = <<>>
    /\ history' = [history EXCEPT !.reset.timed_out = timed_out]
    /\ UNCHANGED <<lifecycle_vars, queue_vars, status_vars, availability_vars,
                   transaction_vars, authorization_cache, crashed, list_vars, extra_vars>>

\* the first connector whose stop_transaction_callback stop_all_transactions invokes
FirstActiveConnector == CHOOSE c \in Connectors :
    transaction_active(c) /\ \A d \in Connectors : transaction_active(d) => c <= d

\* what locking a std::mutex the thread already owns can do: never return, or
\* throw std::system_error out of the thread function
RelockOutcomes == {"deadlocked", "terminated"}

\* reset thread, lines 1298-1299, holding stop_transaction_mutex: stop(), then
\* reset_callback.  reenters: the operator's stop_transaction_callback calls
\* on_transaction_stopped before it returns, which locks stop_transaction_mutex
\* in stop_transaction (line 2292).
ResetThreadStop(reenters) ==
    /\ reset_pc = "stopping"
    /\ ~crashed
    /\ LET reset_callback == <<Emit("callback", "reset_callback", 0, "-")>>
       IN IF stopped
          THEN /\ out' = reset_callback
               /\ reset_pc' = "done"
               /\ stop_transaction_mutex' = "free"
               /\ UNCHANGED <<lifecycle_vars, queue_vars, status_vars, availability_vars,
                              transaction_vars, authorization_cache, crashed, list_vars,
                              extra_vars, history>>
          ELSE IF reenters /\ ~all_transactions_stopped
               THEN /\ initialized' = FALSE
                    /\ boot_notification_timer' = "stopped"
                    /\ heartbeat_timer' = FALSE
                    /\ clock_aligned_meter_values_timer' = FALSE
                    /\ UNCHANGED <<clock_aligned_meter_values_time_point, now>>
                    /\ out' = <<Emit("callback", "stop_transaction_callback",
                                     FirstActiveConnector, "Other")>>
                    /\ SubmitEvents([NoEvents EXCEPT ![FirstActiveConnector] =
                                        "TransactionStoppedAndUserActionRequired"])
                    /\ \E outcome \in RelockOutcomes :
                          /\ reset_pc' = outcome
                          /\ crashed' = (outcome = "terminated")
                    /\ UNCHANGED <<websocket, registration_status, connection_state,
                                   stopped, retry_time_reached, queue_vars,
                                   availability_vars, transaction_vars,
                                   authorization_cache, list_vars,
                                   stop_transaction_mutex, profile_vars, security_vars,
                                   history>>
               ELSE /\ stop(reset_callback)
                    /\ reset_pc' = "done"
                    /\ stop_transaction_mutex' = "free"

\* An accepted charge point with charging sessions, a Reset request and the
\* reset thread it creates.
NextReset ==
    \/ Start
    \/ WebsocketConnected
    \/ QueueTransmit
    \/ BootNotificationResponse("Accepted", 60)
    \/ \E c \in Connectors : OnTransactionStarted(c)
    \/ \E c \in Connectors : OnTransactionStopped(c)
    \/ StopTransactionResponse("none")
    \/ \E type \in {"Soft", "Hard"}, allowed \in BOOLEAN : ResetRequest(type, allowed)
    \/ ResetThreadWait
    \/ \E timed_out \in BOOLEAN : ResetThreadWake(timed_out)
    \/ \E reenters \in BOOLEAN : ResetThreadStop(reenters)

\* the reset thread is scheduled, and the 5 s of wait_for pass
ResetThreadFairness ==
    /\ WF_vars(ResetThreadWait)
    /\ WF_vars(\E timed_out \in BOOLEAN : ResetThreadWake(timed_out))
    /\ WF_vars(\E reenters \in BOOLEAN : ResetThreadStop(reenters))

SpecReset == InitAllSessions /\ [][NextReset]_vars /\ ResetThreadFairness

\* C9: after a Reset request is answered Accepted the reset thread runs stop()
\* and invokes the reset callback, also when a transaction is still active when
\* the wait times out; no thread blocks forever on stop_transaction_mutex.
C9_ResetCompletes == (reset_pc = "created") ~> (reset_pc = "done")

(* ---------------------- ClearChargingProfile -------------------------- *)
\* a response status that does not depend on what was erased
ClearChargingProfileStatus_always_accepted(erased) == "Accepted"

\* handleClearChargingProfileRequest, lines 1512-1527: the status of a request
\* with a filter
ClearChargingProfileStatus(erased) == IF erased THEN "Accepted" ELSE "Unknown"

\* handleClearChargingProfileRequest, lines 1515-1527: the profiles that remain
\* and the response status
clear_charging_profile(profiles, request) ==
    IF request.id = {} /\ request.connectorId = {} /\ request.purpose = {}
       /\ request.stackLevel = {}
    THEN [profiles |-> clear_all_profiles, status |-> "Accepted"]
    ELSE LET by_id == clear_all_profiles_with_filter(profiles, request, TRUE)
         IN IF request.id /= {} /\ by_id.erased
            THEN [profiles |-> by_id.profiles, status |-> ClearChargingProfileStatus(TRUE)]
            ELSE LET by_filter == clear_all_profiles_with_filter(
                                     IF request.id /= {} THEN by_id.profiles ELSE profiles,
                                     request, FALSE)
                 IN [profiles |-> by_filter.profiles,
                     status |-> ClearChargingProfileStatus(by_filter.erased)]

\* ChargePoint::handleClearChargingProfileRequest
ClearChargingProfileRequest(request) ==
    /\ RequestArrives("ClearChargingProfile")
    /\ LET result == clear_charging_profile(charging_profiles, request)
       IN /\ charging_profiles' = result.profiles
          /\ out' = <<Emit("request", "ClearChargingProfile", 0, "-"),
                      Emit("reply", "ClearChargingProfileResponse", 0, result.status)>>
          /\ history' = [history EXCEPT !.last_clear =
                            [handled |-> TRUE, request |-> request, status |-> result.status,
                             previous |-> IF @.handled /\ @.request = request
                                          THEN @.status ELSE "none"]]
    /\ UNCHANGED <<lifecycle_vars, queue_vars, status_vars, availability_vars,
                   transaction_vars, authorization_cache, crashed, list_vars, reset_vars,
                   security_vars, clock_vars>>

\* the ClearChargingProfile requests of the central system: no filter, an id
\* (installed or not), a connector, a stack level, a purpose, and combinations
ClearChargingProfileRequests ==
    {ProfileFilter(id, c, l, p) :
        id \in Optional(1..(MaxProfiles + 1)), c \in Optional({0, 1}),
        l \in Optional({0, 1}), p \in Optional({"TxDefaultProfile", "TxProfile"})}

\* An accepted charge point whose store holds any set of charging profiles; the
\* central system sends ClearChargingProfile requests.
NextClearProfile ==
    \/ Start
    \/ WebsocketConnected
    \/ QueueTransmit
    \/ BootNotificationResponse("Accepted", 60)
    \/ \E r \in ClearChargingProfileRequests : ClearChargingProfileRequest(r)

InitClearProfile ==
    /\ Init
    /\ next_session = 1
    /\ authorization_cache = [t \in IdTags |-> NoEntry]
    /\ local_list_version = 0
    /\ local_authorization_list = [t \in IdTags |-> NoEntry]
    /\ configuration = DefaultConfiguration
    /\ TimersIdle
    /\ charging_profiles \in SUBSET {ChargingProfile(i) : i \in ProfileIds}

SpecClearProfile == InitClearProfile /\ [][NextClearProfile]_vars

\* the step handles the request the previous ClearChargingProfile handled
ClearChargingProfileRepeated ==
    /\ out' /= <<>>
    /\ out'[1] = Emit("request", "ClearChargingProfile", 0, "-")
    /\ history.last_clear.handled
    /\ history'.last_clear.request = history.last_clear.request

\* C11 as stated: handling the same ClearChargingProfile request twice in a row
\* leaves the stored profile set of the first handling, and both responses have
\* status Accepted.
C11_ClearTwiceAcceptedTwice ==
    [][ClearChargingProfileRepeated =>
          /\ charging_profiles' = charging_profiles
          /\ history.last_clear.status = "Accepted"
          /\ history'.last_clear.status = "Accepted"]_vars

\* C11: handling the same ClearChargingProfile request twice in a row leaves the
\* stored profile set of the first handling; a request without a filter is
\* answered Accepted both times, a request with a filter is answered Unknown
\* the second time.
C11_ClearTwiceSameProfiles ==
    [][ClearChargingProfileRepeated =>
          LET request == history.last_clear.request
              no_filter == request = ProfileFilter({}, {}, {}, {})
          IN /\ charging_profiles' = charging_profiles
             /\ no_filter => history.last_clear.status = "Accepted"
             /\ history'.last_clear.status = IF no_filter THEN "Accepted" ELSE "Unknown"]_vars

C11_Witness ==
    /\ history.last_clear.handled
    /\ history.last_clear.request = ProfileFilter({1}, {}, {}, {})
    /\ history.last_clear.previous = "Accepted"
    /\ history.last_clear.status = "Unknown"
    /\ out /= <<>>
    /\ out[1] = Emit("request", "ClearChargingProfile", 0, "-")
    /\ charging_profiles = {ChargingProfile(i) : i \in ProfileIds \ {1}}

(* ------------------- status notification debounce --------------------- *)
\* the largest MinimumStatusDuration, in ticks of the clock
MaxStatusDuration == 2

\* one tick of time passes: armed timers come closer to their timeout, the
\* notifications that were sent grow older (up to MinimumStatusDuration)
Tick ==
    /\ ~crashed
    /\ status_notification_clock' =
          [due |-> [c \in AllConnectors |->
                      IF status_notification_clock.due[c] > 0
                      THEN status_notification_clock.due[c] - 1 ELSE 0],
           age |-> [c \in AllConnectors |->
                      IF status_notification_clock.age[c] < configuration.MinimumStatusDuration
                      THEN status_notification_clock.age[c] + 1
                      ELSE status_notification_clock.age[c]],
           gap |-> status_notification_clock.gap]
    /\ status_notification_clock' /= status_notification_clock
    /\ out' = <<>>
    /\ UNCHANGED <<lifecycle_vars, queue_vars, status, status_notification_timers,
                   availability_vars, transaction_vars, authorization_cache, crashed,
                   aux_vars, history>>

\* An accepted charge point with a MinimumStatusDuration; availability changes
\* make the connectors change state at any time.
NextDebounce ==
    \/ Start
    \/ WebsocketConnected
    \/ QueueTransmit
    \/ BootNotificationResponse("Accepted", 60)
    \/ \E c \in 0..1, type \in {"Operative", "Inoperative"} : ChangeAvailabilityRequest(c, type)
    \/ \E c \in AllConnectors : StatusNotificationTimer(c)
    \/ Tick

InitDebounce ==
    /\ Init
    /\ next_session = MaxSessions
    /\ authorization_cache = [t \in IdTags |-> NoEntry]
    /\ local_list_version = 0
    /\ local_authorization_list = [t \in IdTags |-> NoEntry]
    /\ configuration \in {[DefaultConfiguration EXCEPT !.MinimumStatusDuration = d] :
                             d \in {0, MaxStatusDuration}}
    /\ TimersIdle
    /\ charging_profiles = {}

SpecDebounce == InitDebounce /\ [][NextDebounce]_vars

\* C12: for every connector, a StatusNotification sent by the connector's
\* status notification timer comes no earlier than MinimumStatusDuration after
\* the StatusNotification the timer sent before it.
C12_StatusNotificationDebounce ==
    \A c \in AllConnectors :
        status_notification_clock.gap[c] >= configuration.MinimumStatusDuration

C12_Witness ==
    /\ configuration.MinimumStatusDuration = MaxStatusDuration
    /\ status_notification_clock.gap[1] = MaxStatusDuration
    /\ status_notification_clock.age[1] = 0
    /\ out = <<Pushed(StatusNotificationRequest(1, "Unavailable"))>>

(* --------------------- gating before acceptance ----------------------- *)
\* one Call of every action the charge point sends
GatedCalls ==
    {BootNotificationRequest, HeartbeatRequest, FirmwareStatusNotificationRequest,
     DiagnosticsStatusNotificationRequest, StatusNotificationRequest(1, "Available"),
     StartTransactionRequest(1, 1), StopTransactionRequest(1, 1, Unassigned, "Local"),
     MeterValuesRequest(1, 7)}

\* connection_state leaves Disconnected and Connected only in
\* handleBootNotificationResponse (lines 876, 892, 898) and never returns
BootNotificationResponseHandled == connection_state \in {"Booted", "Pending", "Rejected"}

\* C13: while initialized is false or registration_status is Pending, send
\* enqueues a Call iff it is a BootNotification or a StopTransaction, and
\* initialized is true only after a BootNotificationResponse has been handled.
C13_GatingBeforeAcceptance ==
    /\ (~initialized \/ registration_status = "Pending") =>
          \A call \in GatedCalls :
             send(call) = IF call.action \in GateOpenActions THEN <<Pushed(call)>> ELSE <<>>
    /\ initialized => BootNotificationResponseHandled

(* ------------------------ gating when Rejected ------------------------ *)
\* C14: while registration_status is Rejected (and the charge point was not
\* stopped), send enqueues no Call before boot_time + HeartbeatInterval, and
\* after it only a BootNotification.
C14_GatingWhenRejected ==
    (registration_status = "Rejected" /\ ~stopped) =>
        \A call \in GatedCalls :
           send(call) = IF retry_time_reached /\ call.action = "BootNotification"
                        THEN <<Pushed(call)>> ELSE <<>>

(* -------------------------- inbound frames ---------------------------- *)
MessageTypeIds == {"CALL", "CALLRESULT", "CALLERROR"}
UniqueIds == {"a1", "b2"}

\* an inbound frame of a message type that is not supported
UnsupportedFrame(messageTypeId, uniqueId) ==
    [kind |-> "frame",
     msg |-> [action |-> "unsupported", messageTypeId |-> messageTypeId, uniqueId |-> uniqueId]]

CallError(uniqueId, errorCode) ==
    [kind |-> "reply", msg |-> [action |-> "CallError", uniqueId |-> uniqueId,
                                errorCode |-> errorCode]]

\* a CALLERROR for whatever frame is not supported
unsupported_message_reply_to_every_frame(messageTypeId, uniqueId) ==
    <<CallError(uniqueId, "NotSupported")>>

\* message_callback, lines 681-691: what is sent for an unsupported frame
unsupported_message_reply(messageTypeId, uniqueId) ==
    IF messageTypeId = "CALL" THEN <<CallError(uniqueId, "NotSupported")>> ELSE <<>>

\* ChargePoint::message_callback for a frame whose message type is not in
\* SupportedMessageTypesReceiving; MessageQueue::receive has taken a CALLRESULT
\* or CALLERROR for the Call in flight
UnsupportedMessage(messageTypeId, uniqueId, answers_call) ==
    /\ websocket = "connected"
    /\ ~crashed
    /\ stop_transaction_mutex /= "message_callback"
    /\ answers_call => (messageTypeId /= "CALL" /\ in_flight)
    /\ IF answers_call
       THEN queue' = Tail(queue) /\ in_flight' = FALSE
       ELSE UNCHANGED queue_vars
    /\ out' = <<UnsupportedFrame(messageTypeId, uniqueId)>>
                 \o unsupported_message_reply(messageTypeId, uniqueId)
    /\ UNCHANGED <<lifecycle_vars, status_vars, availability_vars, transaction_vars,
                   authorization_cache, crashed, aux_vars, history>>

\* The registration lifecycle under every answer to BootNotification, with
\* requests of the central system and unsupported frames arriving in every
\* connection state.
NextDispatch ==
    \/ Start
    \/ WebsocketConnected
    \/ WebsocketDisconnected
    \/ QueueTransmit
    \/ BootNotificationTimer
    \/ RetryTimeReached
    \/ OnTransactionStarted(1)
    \/ \E st \in {"Accepted", "Pending", "Rejected"} : BootNotificationResponse(st, 60)
    \/ StartTransactionResponse(7, "Accepted", FALSE)
    \/ \E c \in 0..1, type \in {"Operative", "Inoperative"} : ChangeAvailabilityRequest(c, type)
    \/ \E t \in MessageTypeIds, u \in UniqueIds, a \in BOOLEAN : UnsupportedMessage(t, u, a)

SpecDispatch == InitOneSession /\ [][NextDispatch]_vars

\* the step hands a request of the central system to its handler
RequestHandled == out' /= <<>> /\ out'[1].kind = "request"

UnsupportedMessageStep(messageTypeId, uniqueId) ==
    /\ out' /= <<>>
    /\ out'[1] = UnsupportedFrame(messageTypeId, uniqueId)

NextBootRetry ==
    \/ Start
    \/ WebsocketConnected
    \/ WebsocketDisconnected
    \/ QueueTransmit
    \/ BootNotificationTimer
    \/ HeartbeatTimer
    \/ RetryTimeReached
    \/ \E c \in AllConnectors : StatusNotificationTimer(c)
    \/ \E st \in {"Accepted", "Pending", "Rejected"}, i \in Intervals :
          BootNotificationResponse(st, i)
    \/ \E c \in 0..1, type \in {"Operative", "Inoperative"} : ChangeAvailabilityRequest(c, type)

\* boot_notification_timer fires when it is due, and the clock reaches
\* boot_time + HeartbeatInterval
BootRetryFairness ==
    /\ WF_vars(BootNotificationTimer)
    /\ WF_vars(RetryTimeReached)

SpecBootRetry == InitOneSession /\ [][NextBootRetry]_vars /\ BootRetryFairness

\* the central system has answered BootNotification with Pending or Rejected
RegistrationRefused ==
    /\ connection_state \in {"Pending", "Rejected"}
    /\ registration_status = connection_state

BootNotificationEnqueued == \E i \in 1..Len(queue) : queue[i].action = "BootNotification"

\* C17: after a BootNotificationResponse with status Pending or Rejected and
\* any interval, a new BootNotification is eventually enqueued unless the
\* transport disconnects or the charge point is stopped.
C17_BootRetryLiveness ==
    RegistrationRefused ~> (BootNotificationEnqueued \/ websocket /= "connected" \/ stopped)

(* -------------------------- UnlockConnector --------------------------- *)
\* what unlock_connector_callback gives: true, false, or no callback registered
UnlockCallbackResults == {"Unlocked", "UnlockFailed", "NotSupported"}

\* ChargePoint::handleUnlockConnectorRequest, holding stop_transaction_mutex
\* from line 1389 to its end.  reenters: the operator's stop_transaction_callback
\* calls on_transaction_stopped before it returns, which submits the event and
\* locks stop_transaction_mutex again in stop_transaction (line 2292).
UnlockConnectorRequest(connectorId, reenters, result) ==
    /\ RequestArrives("UnlockConnector")
    /\ stop_transaction_mutex = "free"
    /\ LET request == <<Emit("request", "UnlockConnector", connectorId, "-")>>
           reply(st) == <<Emit("reply", "UnlockConnectorResponse", connectorId, st)>>
           stop_transaction_callback ==
               <<Emit("callback", "stop_transaction_callback", connectorId, "UnlockCommand")>>
           unlock_connector_callback ==
               IF result = "NotSupported" THEN <<>>
               ELSE <<Emit("callback", "unlock_connector_callback", connectorId, "-")>>
       IN IF connectorId = 0 \/ connectorId > NumberOfConnectors
          THEN /\ out' = request \o reply("NotSupported")
               /\ UNCHANGED <<status_vars, stop_transaction_mutex, crashed>>
          ELSE IF transaction_active(connectorId) /\ reenters
               THEN /\ out' = request \o stop_transaction_callback
                    /\ SubmitEvents([NoEvents EXCEPT ![connectorId] =
                                        "TransactionStoppedAndUserActionRequired"])
                    /\ \E outcome \in RelockOutcomes :
                          /\ stop_transaction_mutex' =
                                IF outcome = "deadlocked" THEN "message_callback" ELSE "free"
                          /\ crashed' = (outcome = "terminated")
               ELSE /\ out' = request
                              \o (IF transaction_active(connectorId)
                                  THEN stop_transaction_callback ELSE <<>>)
                              \o unlock_connector_callback \o reply(result)
                    /\ UNCHANGED <<status_vars, stop_transaction_mutex, crashed>>
    /\ UNCHANGED <<lifecycle_vars, queue_vars, availability_vars, transaction_vars,
                   authorization_cache, list_vars, reset_pc, extra_vars, history>>

(* ---------------------- RemoteStartTransaction ------------------------ *)
\* SmartChargingHandler::add_tx_profile: at most one profile per id
add_tx_profile(profiles, profile, connector) ==
    {p \in profiles : p.chargingProfileId /= profile.chargingProfileId}
        \cup {[profile EXCEPT !.connectorId = connector]}

RemoteStartTransactionRequest(connectorId, chargingProfile) ==
    [kind |-> "request",
     msg |-> [action |-> "RemoteStartTransaction", idTag |-> SessionIdTag,
              connectorId |-> connectorId, chargingProfile |-> chargingProfile]]

RemoteStartTransactionResponse(st) ==
    [kind |-> "reply", msg |-> [action |-> "RemoteStartTransactionResponse", status |-> st]]

provide_token_callback(idTag, referenced_connectors, prevalidated) ==
    [kind |-> "callback",
     msg |-> [action |-> "provide_token_callback", idTag |-> idTag,
              referenced_connectors |-> referenced_connectors,
              prevalidated |-> prevalidated]]

\* a request with a connectorId is turned down whatever the connector's status
remote_start_rejected_without_finishing(connectorId) ==
    /\ connectorId /= {}
    /\ \E connector \in connectorId :
          \/ connector = 0
          \/ connector_availability[connector] = "Inoperative"
          \/ get_transaction(connector) /= None

\* handleRemoteStartTransactionRequest, lines 1150-1174: a request with a
\* connectorId is turned down for connector 0, an inoperative connector, and a
\* connector with a transaction or in state Finishing
remote_start_rejected(connectorId) ==
    /\ connectorId /= {}
    /\ \E connector \in connectorId :
          \/ connector = 0
          \/ connector_availability[connector] = "Inoperative"
          \/ get_transaction(connector) /= None
          \/ status[connector] = "Finishing"

\* handleRemoteStartTransactionRequest, lines 1201-1207
referenced_connectors(connectorId) ==
    IF connectorId = {} THEN [i \in 1..NumberOfConnectors |-> i]
    ELSE SeqOfSet(connectorId)

\* ChargePoint::handleRemoteStartTransactionRequest.  connectorId and
\* chargingProfile are optional ({} when absent); valid is what validate_profile
\* gives for the profile
RemoteStartTransaction(connectorId, chargingProfile, valid) ==
    /\ RequestArrives("RemoteStartTransaction")
    /\ LET request == <<RemoteStartTransactionRequest(connectorId, chargingProfile)>>
           profile == ChargingProfile(CHOOSE i \in chargingProfile : TRUE)
           installs == /\ chargingProfile /= {}
                       /\ connectorId /= {}
                       /\ profile.purpose = "TxProfile"
                       /\ valid
           connector == CHOOSE c \in connectorId : TRUE
       IN IF remote_start_rejected(connectorId)
          THEN /\ out' = request \o <<RemoteStartTransactionResponse("Rejected")>>
               /\ UNCHANGED charging_profiles
          ELSE IF chargingProfile /= {} /\ ~installs
               THEN /\ out' = request \o <<RemoteStartTransactionResponse("Rejected")>>
                    /\ UNCHANGED charging_profiles
               ELSE /\ charging_profiles' =
                          IF installs
                          THEN add_tx_profile(charging_profiles, profile, connector)
                          ELSE charging_profiles
                    /\ out' = request
                         \o (IF installs
                             THEN <<Emit("persist", "add_tx_profile", connector, "-")>>
                             ELSE <<>>)
                         \o <<RemoteStartTransactionResponse("Accepted"),
                              provide_token_callback(SessionIdTag,
                                  referenced_connectors(connectorId),
                                  ~configuration.AuthorizeRemoteTxRequests)>>
    /\ UNCHANGED <<lifecycle_vars, queue_vars, status_vars, availability_vars,
                   transaction_vars, authorization_cache, crashed, list_vars, reset_vars,
                   security_vars, clock_vars, history>>

(* ----------------------- RemoteStopTransaction ------------------------ *)
\* the transactionIds a RemoteStopTransaction may carry: the id the central
\* system assigns in this model, and one it never assigned
RemoteStopTransactionIds == {7, 8}

\* TransactionHandler::get_connector_from_transaction_id: the connector of the
\* active transaction with that id, -1 when there is none
get_connector_from_transaction_id(transactionId) ==
    LET found == {c \in Connectors :
                     /\ transaction_active(c)
                     /\ transactions[get_transaction(c)].transaction_id = transactionId}
    IN IF found = {} THEN -1 ELSE CHOOSE c \in found : \A d \in found : c <= d

RemoteStopTransactionRequest(transactionId) ==
    [kind |-> "request", msg |-> Call("RemoteStopTransaction", 0, None, transactionId, "-")]

\* a status that does not depend on the lookup
remote_stop_status_always_accepted(connector) == "Accepted"

\* handleRemoteStopTransactionRequest, lines 1250-1256
remote_stop_status(connector) == IF connector > 0 THEN "Accepted" ELSE "Rejected"

\* ChargePoint::handleRemoteStopTransactionRequest
RemoteStopTransaction(transactionId) ==
    /\ RequestArrives("RemoteStopTransaction")
    /\ LET connector == get_connector_from_transaction_id(transactionId)
       IN out' = <<RemoteStopTransactionRequest(transactionId),
                   Emit("reply", "RemoteStopTransactionResponse", 0,
                        remote_stop_status(connector))>>
                 \o (IF connector > 0
                     THEN <<Emit("callback", "stop_transaction_callback", connector, "Remote")>>
                     ELSE <<>>)
    /\ UNCHANGED <<lifecycle_vars, queue_vars, status_vars, availability_vars,
                   transaction_vars, authorization_cache, crashed, aux_vars, history>>

\* the profiles a RemoteStartTransaction may carry: a TxDefaultProfile and a
\* TxProfile
RemoteStartProfiles == {1, 2}

\* An accepted charge point with charging sessions and the remote commands of
\* the central system.
NextRemote ==
    \/ Start
    \/ WebsocketConnected
    \/ QueueTransmit
    \/ BootNotificationResponse("Accepted", 60)
    \/ \E c \in Connectors : OnTransactionStarted(c)
    \/ \E c \in Connectors : OnTransactionStopped(c)
    \/ StartTransactionResponse(7, "Accepted", FALSE)
    \/ StopTransactionResponse("none")
    \/ \E c \in 0..(NumberOfConnectors + 1), reenters \in BOOLEAN, r \in UnlockCallbackResults :
          UnlockConnectorRequest(c, reenters, r)
    \/ \E type \in {"Operative", "Inoperative"} : ChangeAvailabilityRequest(1, type)
    \/ \E c \in Optional(AllConnectors), p \in Optional(RemoteStartProfiles), valid \in BOOLEAN :
          RemoteStartTransaction(c, p, valid)
    \/ \E id \in RemoteStopTransactionIds : RemoteStopTransaction(id)

\* a new charge point with either value of AuthorizeRemoteTxRequests
InitRemote ==
    /\ Init
    /\ next_session = MaxSessions
    /\ authorization_cache = [t \in IdTags |-> NoEntry]
    /\ local_list_version = 0
    /\ local_authorization_list = [t \in IdTags |-> NoEntry]
    /\ configuration \in {[DefaultConfiguration EXCEPT !.AuthorizeRemoteTxRequests = b] :
                             b \in BOOLEAN}
    /\ TimersIdle
    /\ charging_profiles = {}

SpecRemote == InitRemote /\ [][NextRemote]_vars

\* the last handler was handleUnlockConnectorRequest
UnlockConnectorHandled ==
    /\ out /= <<>>
    /\ out[1].kind = "request"
    /\ out[1].msg.action = "UnlockConnector"

\* C18: no component mutex is held while an operator-supplied callback that
\* may call back into the core is invoked; handling UnlockConnector for a
\* connector with an active transaction, whose stop_transaction_callback
\* synchronously calls on_transaction_stopped, cannot deadlock and always sends
\* its response.
C18_NoLockAcrossCallbacks ==
    UnlockConnectorHandled =>
        /\ stop_transaction_mutex = "free"
        /\ ~crashed
        /\ out[Len(out)].kind = "reply"
        /\ out[Len(out)].msg.action = "UnlockConnectorResponse"

(* -------------------- C19: RemoteStartTransaction --------------------- *)
\* the step is handleRemoteStartTransactionRequest for that request
RemoteStartStep(connectorId, chargingProfile) ==
    /\ out' /= <<>>
    /\ out'[1] = RemoteStartTransactionRequest(connectorId, chargingProfile)

\* what the step emitted after the request went in
RemoteStartEmitted == Tail(out')

RemoteStopStep(transactionId) ==
    /\ out' /= <<>>
    /\ out'[1] = RemoteStopTransactionRequest(transactionId)

\* C20: RemoteStopTransaction is answered Accepted iff the transactionId is
\* that of a transaction known on some connector >= 1, and then
\* stop_transaction_callback(connector, Remote) is invoked exactly once, after
\* the response; otherwise it is answered Rejected, no callback is invoked and
\* no state changes.
C20_RemoteStopTransaction ==
    [][\A transactionId \in RemoteStopTransactionIds :
          RemoteStopStep(transactionId) =>
             LET known == {c \in Connectors :
                              /\ active_transactions[c] /= None
                              /\ transactions[active_transactions[c]].transaction_id
                                    = transactionId}
                 reply(st) == Emit("reply", "RemoteStopTransactionResponse", 0, st)
             IN IF known /= {}
                THEN \E c \in known :
                        Tail(out') = <<reply("Accepted"),
                                       Emit("callback", "stop_transaction_callback", c, "Remote")>>
                ELSE /\ Tail(out') = <<reply("Rejected")>>
                     /\ UNCHANGED <<lifecycle_vars, queue_vars, status_vars,
                                    availability_vars, transaction_vars,
                                    authorization_cache, crashed, aux_vars, history>>]_vars

C20_Witness ==
    /\ out = <<RemoteStopTransactionRequest(7),
               Emit("reply", "RemoteStopTransactionResponse", 0, "Accepted"),
               Emit("callback", "stop_transaction_callback", 1, "Remote")>>
    /\ transaction_active(1)

(* ------------------ C21: SendLocalList Differential ------------------- *)
\* the step handles a Differential SendLocalList with that listVersion
DifferentialStep(listVersion, present) ==
    /\ out' /= <<>>
    /\ out'[1] = SendLocalListEvent("request", listVersion, "Differential", present, "-")

\* C21: with the local list enabled a Differential update is applied and
\* answered Accepted iff its listVersion is strictly greater than the stored
\* version; every other Differential update is answered VersionMismatch and
\* leaves the stored version and entries as they are.
C21_DifferentialUpdate ==
    [][\A v \in ListVersions, present \in BOOLEAN :
          (DifferentialStep(v, present) /\ configuration.LocalAuthListEnabled) =>
             IF local_list_version < v
             THEN /\ out'[2].msg.status = "Accepted"
                  /\ local_list_version' = v
             ELSE /\ out'[2].msg.status = "VersionMismatch"
                  /\ UNCHANGED <<local_list_version, local_authorization_list>>]_vars

(* ----------------- C22: Authorize offline fallback -------------------- *)
\* the future of the step's Authorize call resolved with offline set
ResolvedOffline ==
    \E i \in 1..Len(out') :
       out'[i] = [kind |-> "future", msg |-> [offline |-> TRUE, response |-> NoResponse]]

\* C22: when authorize_id_token has no hit in the local list or the cache and
\* the future of its Authorize call resolves with offline set, it returns
\* Accepted iff AllowOfflineTxForUnknownId is set and true and Invalid
\* otherwise, and the fallback writes nothing to the authorization cache.
C22_AuthorizeOfflineFallback ==
    [][\A t \in IdTags :
          (AuthorizeStep(t) /\ ResolvedOffline) =>
             /\ Returned(out') =
                   IF configuration.AllowOfflineTxForUnknownId = "true"
                   THEN IdTagInfo("Accepted") ELSE IdTagInfo("Invalid")
             /\ \A u \in IdTags :
                   \/ authorization_cache'[u] = authorization_cache[u]
                   \/ /\ u = t
                      /\ cache_consulted(t)
                      /\ authorization_cache'[u] =
                            validate_against_cache_entries(authorization_cache[u]).entry]_vars

C22_Witness ==
    /\ Len(out) = 4
    /\ out[3] = [kind |-> "future", msg |-> [offline |-> TRUE, response |-> NoResponse]]
    /\ Returned(out) = IdTagInfo("Accepted")
    /\ configuration.AllowOfflineTxForUnknownId = "true"
    /\ websocket /= "connected"

(* ----------------- C23: Authorize local precedence -------------------- *)
\* the step handed an Authorize request to the message queue
AuthorizeRequestSent(idTag) ==
    \E i \in 1..Len(out') : out'[i].kind = "push" /\ out'[i].msg = AuthorizeRequest(idTag)

MaxSecurityProfile == 2
SecurityProfiles == 0..MaxSecurityProfile

ChangeConfigurationEvent(kind, key, value, st) ==
    [kind |-> kind, msg |-> [action |-> "ChangeConfiguration", key |-> key, value |-> value,
                             status |-> st]]

\* ChargePointConfiguration::get for the keys of this model: whether the key
\* is known, and whether it is read-only.  The AuthorizationKey is write-only
\* and is never returned.
configuration_get(key) ==
    [present |-> key \in {"SecurityProfile", "ClockAlignedDataInterval", "NumberOfConnectors"},
     readonly |-> key = "NumberOfConnectors"]

\* ChargePointConfiguration::set for the keys of this model: the status, and
\* the configuration it leaves.  A SecurityProfile is accepted when it is higher
\* than the current one and is stored only by the connected callback; a
\* ClockAlignedDataInterval is a number of seconds, 0 for no sampling; an
\* AuthorizationKey is a 0/1 flag saying whether the key is well-formed.
configuration_set(key, value) ==
    CASE key = "SecurityProfile" ->
            [status |-> IF value \in SecurityProfiles /\ value > configuration.SecurityProfile
                        THEN "Accepted" ELSE "Rejected",
             configuration |-> configuration]
      [] key = "ClockAlignedDataInterval" ->
            IF value >= 0
            THEN [status |-> "Accepted",
                  configuration |-> [configuration EXCEPT !.ClockAlignedDataInterval = value]]
            ELSE [status |-> "Rejected", configuration |-> configuration]
      [] key = "AuthorizationKey" ->
            [status |-> IF value = 1 THEN "Accepted" ELSE "Rejected",
             configuration |-> configuration]
      [] OTHER -> [status |-> "NotSupported", configuration |-> configuration]

\* the handler leaves its answer to the closing send in every branch
responded_never(key, st, security_profile) == FALSE

\* the flag `responded` of handleChangeConfigurationRequest at its closing
\* send: set by the branches that answer before they reconnect or disconnect
responded(key, st, security_profile) ==
    /\ st = "Accepted"
    /\ \/ key = "AuthorizationKey" /\ security_profile \in {1, 2}
       \/ key = "SecurityProfile"

\* ChargePoint::handleChangeConfigurationRequest
ChangeConfigurationRequest(key, value) ==
    /\ RequestArrives("ChangeConfiguration")
    /\ LET kv == configuration_get(key)
           known == kv.present \/ key = "AuthorizationKey"
           result == IF ~known
                     THEN [status |-> "NotSupported", configuration |-> configuration]
                     ELSE IF key /= "AuthorizationKey" /\ kv.readonly
                     THEN [status |-> "Rejected", configuration |-> configuration]
                     ELSE configuration_set(key, value)
           security_profile == configuration.SecurityProfile
           request == <<ChangeConfigurationEvent("request", key, value, "-")>>
           reply == <<ChangeConfigurationEvent("reply", key, value, result.status)>>
           early == IF result.status /= "Accepted" THEN <<>>
                    ELSE IF key = "AuthorizationKey" /\ security_profile \in {1, 2}
                    THEN reply \o <<Emit("call", "websocket_reconnect", 0, "normal")>>
                    ELSE IF key = "SecurityProfile"
                    THEN reply \o <<Emit("call", "websocket_disconnect", 0, "service_restart")>>
                    ELSE <<>>
           closing == IF ~responded(key, result.status, security_profile) THEN reply ELSE <<>>
       IN /\ configuration' = result.configuration
          /\ IF result.status = "Accepted" /\ key = "ClockAlignedDataInterval"
             THEN update_clock_aligned_meter_values_interval(
                      result.configuration.ClockAlignedDataInterval)
             ELSE UNCHANGED clock_vars
          /\ IF result.status = "Accepted" /\ key = "SecurityProfile"
             THEN security' = [security EXCEPT !.callback = "switch",
                                               !.new_security_profile = value]
             ELSE UNCHANGED security
          /\ out' = request \o early \o closing
    /\ UNCHANGED <<lifecycle_vars, queue_vars, status_vars, availability_vars,
                   transaction_vars, authorization_cache, crashed, local_list_version,
                   local_authorization_list, reset_vars, profile_vars, history>>

\* An accepted charge point whose central system switches the security profile;
\* connect attempts succeed or fail.
NextSecurity ==
    \/ Start
    \/ WebsocketConnected
    \/ WebsocketDisconnected
    \/ ConnectAttemptFailed
    \/ QueueTransmit
    \/ HeartbeatTimer
    \/ \E c \in AllConnectors : StatusNotificationTimer(c)
    \/ BootNotificationResponse("Accepted", 60)
    \/ \E p \in SecurityProfiles : ChangeConfigurationRequest("SecurityProfile", p)

SpecSecurity == InitOneSession /\ [][NextSecurity]_vars

\* the last step re-initialised the websocket from the fallback callback
FellBack ==
    /\ out /= <<>>
    /\ out[1].kind = "call"
    /\ out[1].msg.action = "connect"
    /\ out[1].msg.cause = "fallback"

\* C24: after an accepted ChangeConfiguration(SecurityProfile = p) the websocket
\* for p makes one connect attempt; when it fails the websocket is initialised
\* again with the previous profile and reconnects in the normal, repeating way,
\* no switch callback left to run on its failures; when it succeeds the
\* pending switch callback is cleared.
C24_SecurityProfileFallback ==
    /\ FellBack =>
          /\ security.websocket_profile = configuration.SecurityProfile
          /\ ~security.try_once
          /\ security.callback = "null"
    /\ websocket = "connected" => security.callback \in {"null", "switch"}

(* --------------- C25: TriggerMessage, ExtendedTriggerMessage ---------- *)
\* connectorIds of a trigger: one below and one above the connectors too
TriggerConnectors == -1..(NumberOfConnectors + 1)

\* A charge point in every registration state with a charging session; the
\* central system triggers every message for every connectorId.
NextTrigger ==
    \/ Start
    \/ WebsocketConnected
    \/ WebsocketDisconnected
    \/ QueueTransmit
    \/ OnTransactionStarted(1)
    \/ \E st \in {"Accepted", "Pending"} : BootNotificationResponse(st, 60)
    \/ StartTransactionResponse(7, "Accepted", FALSE)
    \/ \E m \in MessageTriggers, c \in TriggerConnectors : TriggerMessageRequest(m, c)
    \/ \E m \in ExtendedMessageTriggers, c \in TriggerConnectors :
          ExtendedTriggerMessageRequest(m, c)

\* a new charge point with or without a CpoName
InitTrigger ==
    /\ Init
    /\ next_session = MaxSessions
    /\ authorization_cache = [t \in IdTags |-> NoEntry]
    /\ local_list_version = 0
    /\ local_authorization_list = [t \in IdTags |-> NoEntry]
    /\ configuration \in {[DefaultConfiguration EXCEPT !.CpoName = n] : n \in {"none", "CPO"}}
    /\ TimersIdle
    /\ charging_profiles = {}

SpecTrigger == InitTrigger /\ [][NextTrigger]_vars

\* the step handles that trigger
TriggerStep(action, requestedMessage, connector) ==
    /\ out' /= <<>>
    /\ out'[1] = Emit("request", action, connector, requestedMessage)

\* the Call a trigger asks for
TriggeredAction(action, requestedMessage) ==
    CASE requestedMessage = "SignChargePointCertificate" -> "SignCertificate"
      [] requestedMessage = "FirmwareStatusNotification" /\ action = "ExtendedTriggerMessage" ->
            "SignedFirmwareStatusNotification"
      [] OTHER -> requestedMessage

ClockAlignedDataIntervals == {0, 900}

\* a MeterValues request whose sample has the context Sample_Clock
ClockAlignedMeterValuesRequest(connector, txid) ==
    Call("MeterValues", connector, None, txid, "Sample_Clock")

\* clock_aligned_meter_values_sample, lines 162-168, for the connectors from
\* the given one on: the sample is added to the connector's active transaction
\* and handed to send_meter_value
RECURSIVE clock_aligned_samples(_)
clock_aligned_samples(connector) ==
    IF connector > NumberOfConnectors THEN <<>>
    ELSE LET s == get_transaction(connector)
             txid == IF s /= None /\ transactions[s].transaction_id /= Unassigned
                     THEN transactions[s].transaction_id ELSE None
         IN (IF transaction_active(connector)
             THEN <<Emit("event", "add_meter_value", connector, "Sample_Clock")>>
             ELSE <<>>)
            \o send(ClockAlignedMeterValuesRequest(connector, txid))
            \o clock_aligned_samples(connector + 1)

\* clock_aligned_meter_values_timer fires at its time point:
\* ChargePoint::clock_aligned_meter_values_sample.  The timer is armed for one
\* time point; update_clock_aligned_meter_values_interval arms it for the next
\* one unless the interval is 0.
ClockAlignedMeterValuesTimer ==
    /\ ~crashed
    /\ clock_aligned_meter_values_timer
    /\ IF initialized
       THEN /\ Emits(clock_aligned_samples(1))
            /\ clock_aligned_meter_values_timer' = (configuration.ClockAlignedDataInterval /= 0)
            /\ clock_aligned_meter_values_time_point' =
                   IF configuration.ClockAlignedDataInterval = 0
                   THEN clock_aligned_meter_values_time_point
                   ELSE next_clock_aligned_time_point(now,
                                                      configuration.ClockAlignedDataInterval)
       ELSE /\ Emits(<<>>)
            /\ clock_aligned_meter_values_timer' = FALSE
            /\ UNCHANGED clock_aligned_meter_values_time_point
    /\ UNCHANGED now
    /\ UNCHANGED <<lifecycle_vars, in_flight, status_vars, availability_vars,
                   transaction_vars, authorization_cache, crashed, list_vars, reset_vars,
                   profile_vars, security_vars>>

\* The registration lifecycle of a charge point with clock-aligned sampling
\* configured or not, whose central system changes ClockAlignedDataInterval.
NextClock ==
    \/ Start
    \/ Stop
    \/ Restart
    \/ WebsocketConnected
    \/ WebsocketDisconnected
    \/ QueueTransmit
    \/ HeartbeatTimer
    \/ ClockAlignedMeterValuesTimer
    \/ \E c \in AllConnectors : StatusNotificationTimer(c)
    \/ \E c \in Connectors : OnTransactionStarted(c)
    \/ \E c \in Connectors : OnTransactionStopped(c)
    \/ \E c \in Connectors : MeterValuesSampleTimer(c)
    \/ BootNotificationTimer
    \/ RetryTimeReached
    \/ \E st \in {"Accepted", "Pending", "Rejected"}, i \in Intervals :
          BootNotificationResponse(st, i)
    \/ StartTransactionResponse(7, "Accepted", FALSE)
    \/ StopTransactionResponse("none")
    \/ \E i \in ClockAlignedDataIntervals :
          ChangeConfigurationRequest("ClockAlignedDataInterval", i)

InitClock ==
    /\ Init
    /\ authorization_cache = [t \in IdTags |-> NoEntry]
    /\ local_list_version = 0
    /\ local_authorization_list = [t \in IdTags |-> NoEntry]
    /\ \E i \in ClockAlignedDataIntervals :
          configuration = [DefaultConfiguration EXCEPT !.ClockAlignedDataInterval = i]
    /\ TimersIdle
    /\ charging_profiles = {}
    /\ next_session = MaxSessions

SpecClock == InitClock /\ [][NextClock]_vars

\* the Calls with a clock-aligned sample that the last handler handed to the queue
ClockAlignedPushed ==
    SelectSeq(out, LAMBDA e : e.kind = "push" /\ e.msg.action = "MeterValues"
                              /\ e.msg.status = "Sample_Clock")

\* the samples the last handler added to a transaction
SamplesAdded ==
    {out[i].msg.connector : i \in {j \in 1..Len(out) : /\ out[j].kind = "event"
                                                        /\ out[j].msg.action = "add_meter_value"}}

\* C28: once ClockAlignedDataInterval is 0 no MeterValues with the context
\* Sample_Clock is emitted; with a non-zero interval and the charge point
\* initialized a tick of the timer adds a sample to the active transaction of
\* every connector that has one and arms the timer again.
C28_ClockAlignedSamplingSkipped ==
    [][/\ configuration.ClockAlignedDataInterval = 0 =>
             ~(ClockAlignedMeterValuesTimer /\ ClockAlignedPushed' /= <<>>)
       /\ (ClockAlignedMeterValuesTimer /\ configuration.ClockAlignedDataInterval /= 0
           /\ initialized) =>
             /\ clock_aligned_meter_values_timer'
             /\ SamplesAdded' = {c \in Connectors : transaction_active(c)}]_vars

(* --------------------------- timers after stop ------------------------ *)
\* a timer of the charge point runs its callback: the boot notification
\* timer, the heartbeat timer, the clock-aligned sampling timer, the status
\* notification timer of a connector, the sample timer of a transaction
TimerCallback ==
    \/ BootNotificationTimer
    \/ HeartbeatTimer
    \/ ClockAlignedMeterValuesTimer
    \/ \E c \in AllConnectors : StatusNotificationTimer(c)
    \/ \E c \in Connectors : MeterValuesSampleTimer(c)

\* C26: between a stop() that returned true and the next restart() no timer
\* callback hands a request to the message queue or changes the closed store,
\* whichever timer it is and whenever it was armed.
C26_NoTimerRequestAfterStop ==
    [][(stopped /\ TimerCallback) =>
          /\ PushedCalls' = <<>>
          /\ UNCHANGED <<queue, db_transactions, authorization_cache, connector_availability,
                         local_list_version, local_authorization_list, configuration,
                         charging_profiles>>]_vars

\* the charge point is stopped while the status notification timer of a
\* connector is due and the sample timer of a transaction still runs
C26_Witness ==
    /\ stopped
    /\ \E c \in Connectors : transaction_active(c)
    /\ \E c \in AllConnectors : /\ status_notification_timers[c] /= "stopped"
                               /\ status_notification_clock.due[c] = 0

(* ------------------- assignment of the transaction id ----------------- *)
\* the step hands the StartTransactionResponse of session s, the answer to
\* the StartTransaction the queue has in flight, to handleStartTransactionResponse
StartTransactionResponseHandled(s) ==
    /\ websocket = "connected"
    /\ in_flight
    /\ queue /= <<>>
    /\ Head(queue).action = "StartTransaction"
    /\ Head(queue).session = s
    /\ Dispatch("StartTransactionResponse") = "handle_message"
    /\ history'.start_response[s] /= history.start_response[s]

\* C27: the transaction_id of a transaction is -1 when on_transaction_started
\* creates it; the handling of the StartTransactionResponse that answers its
\* StartTransaction sets it to the transactionId of that response; no other
\* step changes it, and once it is set no step changes it.
C27_TransactionIdAssignedOnce ==
    [][\A s \in Sessions :
          /\ (s = next_session /\ next_session' = s + 1) =>
                transactions'[s].transaction_id = Unassigned
          /\ StartTransactionResponseHandled(s) =>
                transactions'[s].transaction_id = history'.start_response[s]
          /\ (s < next_session /\ ~StartTransactionResponseHandled(s)) =>
                transactions'[s].transaction_id = transactions[s].transaction_id
          /\ transactions[s].transaction_id /= Unassigned =>
                transactions'[s].transaction_id = transactions[s].transaction_id]_vars

(* ------------------- reset waits for confirmation --------------------- *)
\* wait_for of the reset thread has returned (line 1297 is reached)
WaitReturned == reset_pc \in {"stopping", "done", "deadlocked", "terminated"}

\* the StopTransactionResponse of every transaction that was active at the
\* accepted Reset request has been handled: none of them is active, none is
\* kept as a stopped transaction that waits for its response
ConfirmationsHandled ==
    history.reset.active \cap (ActiveSessions \cup stopped_transactions) = {}

\* C29: after an accepted Reset the reset thread goes on to stop() and the
\* reset callback only when the StopTransactionResponse of every transaction
\* active at the request has been handled, or when the 5 s of its wait have
\* passed.
C29_ResetWaitsForConfirmation ==
    WaitReturned => (history.reset.timed_out \/ ConfirmationsHandled)

(* ------------- StopTransactionResponse and its connector -------------- *)
\* the step handles the StopTransactionResponse of session s: the stopped
\* transaction is erased (line 1382)
StopTransactionResponseHandled(s) ==
    s \in stopped_transactions /\ s \notin stopped_transactions'

\* C30: handling the StopTransactionResponse of a transaction on connector c
\* applies and removes the availability change queued for c, and leaves the
\* queued change, the availability and the FSM state of every other connector
\* as they are.
C30_StopResponseActsOnItsConnector ==
    [][\A s \in Sessions :
          StopTransactionResponseHandled(s) =>
             LET c == transactions[s].connector
                 queued == change_availability_queue[c]
             IN /\ change_availability_queue'[c] = "none"
                /\ queued /= "none" => AvailabilityApplied(c, queued)
                /\ \A d \in Connectors \ {c} :
                      /\ change_availability_queue'[d] = change_availability_queue[d]
                      /\ connector_availability'[d] = connector_availability[d]
                      /\ status'[d] = status[d]]_vars

(* ----------------------- debounce coalescing -------------------------- *)
\* C31: a connector has at most one pending status notification, the one of
\* its latest transition: a transition, also one that comes while a
\* notification is pending, leaves the connector's timer armed with the new
\* status and a full MinimumStatusDuration; the timer sends nothing but the
\* connector's current status, once, and nothing is sent for a status that was
\* superseded.
C31_DebounceCoalescing ==
    [][\A c \in AllConnectors :
          /\ status'[c] /= status[c] =>
                /\ status_notification_timers'[c] = status'[c]
                /\ status_notification_clock'.due[c] = configuration.MinimumStatusDuration
                /\ \A e \in Range(PushedCalls') :
                      ~(e.msg.action = "StatusNotification" /\ e.msg.connector = c)
          /\ StatusNotificationTimer(c) =>
                /\ PushedCalls' \in {<<>>, <<Pushed(StatusNotificationRequest(c, status[c]))>>}
                /\ status_notification_timers'[c] = "stopped"]_vars

\* one notification was sent for connector 1 a tick ago, and since then the
\* connector left its state and came back: the notification of the state in
\* between was superseded by the pending one
C31_Witness ==
    /\ configuration.MinimumStatusDuration = MaxStatusDuration
    /\ status_notification_timers[1] = "Available"
    /\ status_notification_clock.due[1] = MaxStatusDuration
    /\ status_notification_clock.age[1] = 1
    /\ status_notification_clock.gap[1] = NotNotified
    /\ out /= <<>>
    /\ out[1] = Emit("request", "ChangeAvailability", 1, "Operative")

(* ------------------ registration state consistency -------------------- *)
RegistrationStatuses == {"Accepted", "Pending", "Rejected"}

\* the connection_state handleBootNotificationResponse sets for a response status
ConnectionStateOf(st) ==
    CASE st = "Accepted" -> "Booted"
      [] st = "Pending" -> "Pending"
      [] OTHER -> "Rejected"

\* the step hands a BootNotificationResponse with status st to
\* handleBootNotificationResponse
BootNotificationResponseHandledWith(st) ==
    /\ Dispatch("BootNotificationResponse") = "boot"
    /\ \E i \in Intervals : BootNotificationResponse(st, i)

\* C32: registration_status changes only in a step that handles a
\* BootNotificationResponse; such a step sets registration_status to the
\* status of the response and connection_state to Booted, Pending or Rejected
\* accordingly; so connection_state Booted, Pending, Rejected goes with
\* registration_status Accepted, Pending, Rejected in every state.
C32_RegistrationStateConsistency ==
    [][/\ registration_status' /= registration_status =>
             \E st \in RegistrationStatuses : BootNotificationResponseHandledWith(st)
       /\ \A st \in RegistrationStatuses :
             BootNotificationResponseHandledWith(st) =>
                /\ registration_status' = st
                /\ connection_state' = ConnectionStateOf(st)
       /\ connection_state' \in {"Booted", "Pending", "Rejected"} =>
             connection_state' = ConnectionStateOf(registration_status')]_vars

\* a BootNotificationResponse(Rejected) was handled and the charge point was
\* stopped afterwards
C32_Witness ==
    /\ connection_state = "Rejected"
    /\ registration_status = "Rejected"
    /\ boot_notification_timer = "stopped"
    /\ stopped

\* C33: no step sets connection_state back to Disconnected, and once it is
\* Booted every step leaves it Booted: disconnects, reconnects, stop, restart
\* and the answers to later BootNotifications included.
C33_ConnectionStateNeverRegresses ==
    [][/\ connection_state /= "Disconnected" => connection_state' /= "Disconnected"
       /\ connection_state = "Booted" => connection_state' = "Booted"]_vars

\* a Booted charge point, reconnected after a restart or a disconnect, waits
\* for the answer to a later BootNotification
C33_Witness ==
    /\ connection_state = "Booted"
    /\ websocket = "connected"
    /\ in_flight
    /\ Head(queue).action = "BootNotification"


(* ------------------------ SetChargingProfile -------------------------- *)
\* SmartChargingHandler::add_charge_point_max_profile: at most one profile per id
add_charge_point_max_profile(profiles, profile) ==
    {p \in profiles : p.chargingProfileId /= profile.chargingProfileId} \cup {profile}

\* SmartChargingHandler::add_tx_default_profile: at most one profile per id
add_tx_default_profile(profiles, profile, connector) ==
    {p \in profiles : p.chargingProfileId /= profile.chargingProfileId}
        \cup {[profile EXCEPT !.connectorId = connector]}

SetChargingProfileEvent(kind, connectorId, chargingProfileId, st) ==
    [kind |-> kind,
     msg |-> [action |-> "SetChargingProfile", connectorId |-> connectorId,
              chargingProfileId |-> chargingProfileId, status |-> st]]

\* ChargePoint::handleSetChargingProfileRequest; `supported` says whether the
\* purpose is one of getSupportedChargingProfilePurposeTypes, `valid` is the
\* result of SmartChargingHandler::validate_profile
SetChargingProfileRequest(connectorId, chargingProfileId, supported, valid) ==
    /\ RequestArrives("SetChargingProfile")
    /\ LET profile == ChargingProfile(chargingProfileId)
           st == IF supported /\ valid THEN "Accepted" ELSE "Rejected"
           cleared == clear_all_profiles_with_filter(
                          charging_profiles,
                          ProfileFilter({chargingProfileId}, {}, {}, {}), TRUE).profiles
           installed ==
               CASE profile.purpose = "ChargePointMaxProfile" ->
                        add_charge_point_max_profile(cleared, profile)
                 [] profile.purpose = "TxDefaultProfile" ->
                        add_tx_default_profile(cleared, profile, connectorId)
                 [] profile.purpose = "TxProfile" ->
                        add_tx_profile(cleared, profile, connectorId)
       IN /\ charging_profiles' = IF st = "Accepted" THEN installed ELSE charging_profiles
          /\ out' = <<SetChargingProfileEvent("request", connectorId, chargingProfileId, "-"),
                      SetChargingProfileEvent("reply", connectorId, chargingProfileId, st)>>
                    \o (IF st = "Accepted"
                        THEN <<Emit("callback", "signal_set_charging_profiles_callback", 0, "-")>>
                        ELSE <<>>)
    /\ UNCHANGED <<lifecycle_vars, queue_vars, status_vars, availability_vars,
                   transaction_vars, authorization_cache, crashed, list_vars, reset_vars,
                   security_vars, clock_vars, history>>

(* ---------------- one response per dispatched request ----------------- *)
\* the keys a ChangeConfiguration names here: a stored key, the write-only
\* AuthorizationKey, a read-only key and a key the charge point does not know
ChangeConfigurationKeys ==
    {"SecurityProfile", "AuthorizationKey", "NumberOfConnectors", "UnknownKey"}

\* An accepted charge point with a charging session, answering the requests of
\* the central system that change its configuration, availability, profiles
\* and local list.
NextResponses ==
    \/ Start
    \/ WebsocketConnected
    \/ WebsocketDisconnected
    \/ QueueTransmit
    \/ BootNotificationResponse("Accepted", 60)
    \/ OnTransactionStarted(1)
    \/ \E key \in ChangeConfigurationKeys, value \in 0..1 : ChangeConfigurationRequest(key, value)
    \/ \E c \in {0, NumberOfConnectors + 1} : ChangeAvailabilityRequest(c, "Inoperative")
    \/ \E c \in Optional({0, 1}), p \in Optional({2}), valid \in BOOLEAN :
          RemoteStartTransaction(c, p, valid)
    \/ \E allowed \in BOOLEAN : ResetRequest("Soft", allowed)
    \/ \E supported \in BOOLEAN, valid \in BOOLEAN :
          SetChargingProfileRequest(1, 2, supported, valid)
    \/ \E l \in {u \in LocalListUpdates : u.entries = {}} : SendLocalListRequest(1, "Full", l)

\* a new charge point
InitResponses ==
    /\ Init
    /\ next_session = MaxSessions
    /\ authorization_cache = [t \in IdTags |-> NoEntry]
    /\ local_list_version = 0
    /\ local_authorization_list = [t \in IdTags |-> NoEntry]
    /\ charging_profiles = {}
    /\ configuration = DefaultConfiguration
    /\ TimersIdle

SpecResponses == InitResponses /\ [][NextResponses]_vars

\* the requests whose handlers the claim names
DispatchedRequests ==
    {"ChangeConfiguration", "ChangeAvailability", "RemoteStartTransaction", "Reset",
     "SetChargingProfile", "SendLocalList"}

\* the CALLRESULTs among the events of a handler
CallResults(o) == {i \in 1..Len(o) : o[i].kind = "reply"}

DispatchedRequestHandled ==
    /\ out' /= <<>>
    /\ out'[1].kind = "request"
    /\ out'[1].msg.action \in DispatchedRequests

\* C34: every request handed to one of the six handlers is answered by exactly
\* one CALLRESULT, on every branch, the early answers of ChangeConfiguration
\* for SecurityProfile and AuthorizationKey included.
C34_OneResponsePerRequest ==
    [][DispatchedRequestHandled => Cardinality(CallResults(out')) = 1]_vars

\* an accepted AuthorizationKey on security profile 1 or 2 was answered and
\* the websocket told to reconnect
C34_Witness ==
    /\ Len(out) = 3
    /\ out[1] = ChangeConfigurationEvent("request", "AuthorizationKey", 1, "-")
    /\ out[2] = ChangeConfigurationEvent("reply", "AuthorizationKey", 1, "Accepted")
    /\ out[3] = Emit("call", "websocket_reconnect", 0, "normal")


(* ----------------------------- MeterValues ---------------------------- *)
\* An accepted charge point with charging sessions whose sample timers fire
\* with or without sampled values, and whose central system triggers
\* MeterValues for any connector.
NextMeter ==
    \/ Start
    \/ WebsocketConnected
    \/ QueueTransmit
    \/ BootNotificationResponse("Accepted", 60)
    \/ \E c \in Connectors : OnTransactionStarted(c)
    \/ \E c \in Connectors : OnTransactionStopped(c)
    \/ StartTransactionResponse(7, "Accepted", FALSE)
    \/ StopTransactionResponse("none")
    \/ \E c \in Connectors, n \in 0..1 : MeterValuesSample(c, n)
    \/ \E c \in AllConnectors : TriggerMessageRequest("MeterValues", c)

SpecMeter == InitAllSessions /\ [][NextMeter]_vars

\* the MeterValues requests the last handler built
MeterValuesBuilt(o) ==
    {o[i].msg : i \in {j \in 1..Len(o) : o[j].kind = "push" /\ o[j].msg.action = "MeterValues"}}

\* the connector has a transaction whose id the central system has assigned
TransactionIdReceived(connector) ==
    /\ connector >= 1
    /\ transaction_active(connector)
    /\ transactions[get_transaction(connector)].transaction_id /= Unassigned

\* C35: a MeterValues request carries a transactionId exactly when its
\* connector is >= 1 and has a transaction whose id was received, and then the
\* id of that transaction; a meter value without sampled values produces no
\* request.
C35_MeterValuesTransactionId ==
    [][/\ \A req \in MeterValuesBuilt(out') :
             IF TransactionIdReceived(req.connector)
             THEN req.transactionId =
                      transactions[get_transaction(req.connector)].transaction_id
             ELSE req.transactionId = None
       /\ \A c \in Connectors : MeterValuesSample(c, 0) => out' = <<>>]_vars

\* a MeterValues with the received id on one connector while the other
\* connector's transaction still awaits its StartTransactionResponse
C35_Witness ==
    /\ \E req \in MeterValuesBuilt(out) : req.transactionId = 7
    /\ \E c \in Connectors :
          transaction_active(c) /\ transactions[get_transaction(c)].transaction_id = Unassigned


\* some physical connector has an active transaction and some has none
MixedFleet ==
    /\ \E c \in Connectors : transaction_active(c)
    /\ \E c \in Connectors : ~transaction_active(c)

\* C36: a ChangeAvailability for connector 0 that arrives with a mixed fleet is
\* answered Scheduled, records the type for the connectors with an active
\* transaction only, and persists nothing, invokes no callback and submits no
\* event for any connector.
C36_MixedFleetScheduled ==
    [][\A type \in AvailabilityTypes :
          (MixedFleet /\ ChangeAvailabilityRequest(0, type)) =>
             /\ out' = <<Emit("request", "ChangeAvailability", 0, type),
                         Emit("reply", "ChangeAvailabilityResponse", 0, "Scheduled")>>
             /\ \A c \in Connectors :
                   change_availability_queue'[c] =
                       IF transaction_active(c) THEN type ELSE change_availability_queue[c]
             /\ UNCHANGED <<connector_availability, status, status_notification_timers>>]_vars

\* connector 0 was scheduled Inoperative while one connector charged and an
\* idle one had nothing recorded
C36_Witness ==
    /\ Len(out) = 2
    /\ out[1] = Emit("request", "ChangeAvailability", 0, "Inoperative")
    /\ out[2].msg.status = "Scheduled"
    /\ \E c \in Connectors : transaction_active(c) /\ change_availability_queue[c] = "Inoperative"
    /\ \E c \in Connectors : ~transaction_active(c) /\ change_availability_queue[c] = "none"


(* ------------------- the next clock-aligned time point ---------------- *)
\* the seconds that pass after the first midnight of the clock's count
MaxElapsed == 90

\* the times of this model: from 27 s before the midnight the function
\* computes to some intervals after it
Times == SECONDS_PER_DAY..(SECONDS_PER_DAY + MaxElapsed)

\* the values of ClockAlignedDataInterval the central system sets
AlignedIntervals == {0, 1, 7, 30}

\* time passes
TimePasses(t) ==
    /\ t > now
    /\ now' = t
    /\ UNCHANGED <<lifecycle_vars, queue_vars, status_vars, availability_vars,
                   transaction_vars, authorization_cache, crashed, list_vars, reset_vars,
                   profile_vars, security_vars, clock_aligned_meter_values_timer,
                   clock_aligned_meter_values_time_point, history, out>>

\* An accepted charge point whose central system changes
\* ClockAlignedDataInterval at any time of the day.
NextAligned ==
    \/ Start
    \/ WebsocketConnected
    \/ QueueTransmit
    \/ BootNotificationResponse("Accepted", 60)
    \/ \E t \in Times : TimePasses(t)
    \/ \E i \in AlignedIntervals : ChangeConfigurationRequest("ClockAlignedDataInterval", i)
    \/ ClockAlignedMeterValuesTimer

SpecAligned == InitOneSession /\ [][NextAligned]_vars

\* C37: with an interval I > 0 update_clock_aligned_meter_values_interval arms
\* the timer at midnight + floor(d / I) * I + I, d being the whole seconds
\* since the computed midnight: a positive multiple of I after midnight, later
\* than now and at most I later; with I = 0 it leaves the timer and its time
\* point as they are.
C37_NextTimePoint ==
    [][\A I \in AlignedIntervals :
          ChangeConfigurationRequest("ClockAlignedDataInterval", I) =>
             IF I = 0
             THEN UNCHANGED <<clock_aligned_meter_values_timer,
                              clock_aligned_meter_values_time_point>>
             ELSE LET midnight == midnight_of(now)
                      d == now - midnight
                      t == clock_aligned_meter_values_time_point'
                  IN /\ clock_aligned_meter_values_timer'
                     /\ t = midnight + ((d \div I) * I + I)
                     /\ t - midnight > 0
                     /\ (t - midnight) % I = 0
                     /\ t > now
                     /\ t - now <= I]_vars


(* ------------------- start, stop and restart calls -------------------- *)
\* the value a lifecycle call returns to the operator
Return(call, value) == Emit("return", call, 0, value)

\* every variable a call can change, `out` apart
state_vars == <<lifecycle_vars, queue_vars, status_vars, availability_vars, transaction_vars,
                authorization_cache, crashed, aux_vars, history>>

\* the operator calls ChargePoint::start while the store is open
StartCall ==
    /\ ~crashed
    /\ ~stopped
    /\ QueueHasRoom
    /\ StartOnThen(queue, initialized, registration_status, retry_time_reached,
                   <<Return("start", "true")>>)
    /\ UNCHANGED <<initialized, registration_status, connection_state, retry_time_reached,
                   boot_notification_timer, heartbeat_timer, in_flight, status_vars,
                   availability_vars, active_transactions, stopped_transactions,
                   connector_transaction, transactions, next_session,
                   authorization_cache, crashed, aux_vars>>

\* the operator calls ChargePoint::stop on a charge point that was started
StopCall ==
    /\ websocket /= "null"
    /\ ~crashed
    /\ IF ~stopped
       THEN stop(<<Return("stop", "true")>>) /\ UNCHANGED reset_vars
       ELSE out' = <<Return("stop", "false")>> /\ UNCHANGED state_vars

\* the operator calls ChargePoint::restart
RestartCall ==
    /\ ~crashed
    /\ IF stopped
       THEN /\ initialized' = TRUE
            /\ in_flight' = FALSE
            /\ StartOnThen(<<>>, TRUE, registration_status, retry_time_reached,
                           <<Return("restart", "true")>>)
            /\ UNCHANGED <<registration_status, connection_state, retry_time_reached,
                           boot_notification_timer, heartbeat_timer, status_vars,
                           availability_vars, active_transactions, stopped_transactions,
                           connector_transaction, transactions, next_session,
                           authorization_cache, crashed, aux_vars>>
       ELSE out' = <<Return("restart", "false")>> /\ UNCHANGED state_vars

\* A charge point whose operator calls start, stop and restart in any order
\* while it registers and charges.
NextLifecycle ==
    \/ StartCall
    \/ StopCall
    \/ RestartCall
    \/ WebsocketConnected
    \/ QueueTransmit
    \/ BootNotificationTimer
    \/ RetryTimeReached
    \/ \E st \in {"Accepted", "Pending", "Rejected"} : BootNotificationResponse(st, 60)
    \/ OnTransactionStarted(1)

SpecLifecycle == InitOneSession /\ [][NextLifecycle]_vars

\* the lifecycle calls that returned true in the events o
Succeeded(o) ==
    {o[i].msg.action : i \in {j \in 1..Len(o) : o[j].kind = "return" /\ o[j].msg.status = "true"}}

PowerLoss ==
    /\ websocket /= "null"
    /\ websocket' = "null"
    /\ security' = NoSwitch
    /\ clock_aligned_meter_values_timer' = FALSE
    /\ clock_aligned_meter_values_time_point' = 0
    /\ initialized' = FALSE
    /\ registration_status' = "Pending"
    /\ connection_state' = "Disconnected"
    /\ stopped' = FALSE
    /\ retry_time_reached' = TRUE
    /\ boot_notification_timer' = "stopped"
    /\ heartbeat_timer' = FALSE
    /\ queue' = <<>>
    /\ in_flight' = FALSE
    /\ status' = [c \in AllConnectors |-> "Available"]
    /\ status_notification_timers' = [c \in AllConnectors |-> "stopped"]
    /\ status_notification_clock' =
           [due |-> [c \in AllConnectors |-> 0], age |-> [c \in AllConnectors |-> NotNotified],
            gap |-> [c \in AllConnectors |-> NotNotified]]
    /\ change_availability_queue' = [c \in Connectors |-> "none"]
    /\ active_transactions' = [c \in Connectors |-> None]
    /\ stopped_transactions' = {}
    /\ connector_transaction' = [c \in Connectors |-> None]
    /\ transactions' = [s \in Sessions |-> NoTransaction]
    /\ crashed' = FALSE
    /\ reset_pc' = "none"
    /\ stop_transaction_mutex' = "free"
    /\ out' = <<>>
    /\ UNCHANGED <<connector_availability, next_session, db_transactions, authorization_cache,
                   list_vars, profile_vars, now, history>>

\* A charge point that loses power or is stopped and restarted while
\* transactions are stored without a stop.
NextPowerLoss ==
    \/ Start
    \/ Stop
    \/ Restart
    \/ PowerLoss
    \/ WebsocketConnected
    \/ QueueTransmit
    \/ RetryTimeReached
    \/ \E st \in {"Accepted", "Pending", "Rejected"} : BootNotificationResponse(st, 60)
    \/ \E c \in Connectors : OnTransactionStarted(c)
    \/ StartTransactionResponse(7, "Accepted", FALSE)

SpecPowerLoss == InitAllSessions /\ [][NextPowerLoss]_vars

\* C39: start() hands the BootNotification to the queue first and then, for
\* every transaction the store holds without a stop, exactly one
\* StopTransaction with reason PowerLoss and the stored transaction id, and
\* records the stop in the store, so that a later start() finds nothing to
\* stop; the gate lets these calls pass before any BootNotificationResponse.
C39_PowerLossRecovery ==
    [][(Start \/ Restart) =>
          LET pushed == SelectSeq(out', LAMBDA e : e.kind = "push")
          IN /\ Len(pushed) = 1 + Cardinality(db_transactions)
             /\ pushed[1].msg = BootNotificationRequest
             /\ \A e \in db_transactions :
                   \E i \in 2..Len(pushed) :
                      pushed[i].msg = StopTransactionRequest(e.session, e.connector,
                                                             e.transaction_id, "PowerLoss")
             /\ db_transactions' = {}]_vars
====
